---- MODULE Spec2Model ----
(***************************************************************************)
(* Model of the search-and-rerank pipeline of search_server.py: the        *)
(* module-level state (profiles, faiss_index, openai_client), the startup  *)
(* handler that loads the store and builds the index, the /search handler  *)
(* and the pure functions it calls (get_text_representation,               *)
(* create_embeddings, matches_filters, rerank_results).                    *)
(*                                                                         *)
(* Python values are tagged records so that values of different Python     *)
(* types can be compared: None, bool, int, str (a sequence of characters), *)
(* list, dict (a function from keys to values) and a JSON object as the    *)
(* oracle returns it (an ordered sequence of key/value items).             *)
(***************************************************************************)
EXTENDS Integers, Sequences, FiniteSets, TLC

VARIABLES
    profiles,       \* global `profiles`: the loaded store, a sequence of records
    faiss_index,    \* global `faiss_index`: None, or the rows of the flat index
    openai_client,  \* global `openai_client`: TRUE iff a client object is set
    boot,           \* position of startup_event
    builds,         \* how many times initialize_faiss_index assigned faiss_index
    req,            \* the /search request being handled and its position
    rr,             \* a direct call of rerank_results: its arguments and result
    core,           \* a direct call of get_text_representation or of
                    \* matches_filters: its arguments, position and locals
    patch,          \* a run of patch_profiles_json: the CSV rows, the profiles and the loop position
    load,           \* startup_event's loop over the candidate files
    scrape          \* a run of EstBANScraper.scrape_all

vars == <<profiles, faiss_index, openai_client, boot, builds, req, rr, core, patch, load, scrape>>

\* ------------------------------------------------------------- bounds
MaxProfiles == 4      \* records in the store
MaxResults == 2       \* largest max_results of a /search request
MaxServedRank == 1    \* longest index list drawn freely for the oracle of /search
MaxCand == 4          \* longest candidate list of a direct rerank_results call
MaxRank == 2          \* longest index list the oracle returns to such a call
MaxOver == 1          \* entries a list field holds beyond its truncation limit
MaxPairs == 2         \* pairs of a filter mapping drawn from the pool of pairs
MaxServedProfiles == 2  \* longest store of the server that handles every route
MaxMembers == 2       \* rows of the members CSV
MaxPatched == 2       \* profiles of a patched JSON file
MaxPages == 3         \* pages of a scraped directory
MaxPerPage == 2       \* named members of a page

\* ------------------------------------------------------------- Python values
None == [t |-> "none"]
BoolV(b) == [t |-> "bool", b |-> b]
IntV(n) == [t |-> "int", n |-> n]
StrV(s) == [t |-> "str", s |-> s]
ListV(l) == [t |-> "list", l |-> l]
DictV(d) == [t |-> "dict", d |-> d]
ObjV(items) == [t |-> "obj", items |-> items]

\* How a call ends: it returns a value or it raises an exception.
Returned(v) == [raised |-> FALSE, value |-> v]
Raised(exc) == [raised |-> TRUE, exc |-> exc]

Min(a, b) == IF a <= b THEN a ELSE b

SeqsUpTo(S, n) == UNION {[1..k -> S] : k \in 0..n}

Range(s) == {s[i] : i \in 1..Len(s)}

\* Python truthiness of a value (`not x`, `a or b`).
Truthy(v) ==
    CASE v.t = "none" -> FALSE
      [] v.t = "bool" -> v.b
      [] v.t = "int" -> v.n # 0
      [] v.t = "str" -> v.s # <<>>
      [] v.t = "list" -> v.l # <<>>
      [] v.t = "dict" -> DOMAIN v.d # {}
      [] v.t = "obj" -> v.items # <<>>

\* results[:max_results]
Head_(results, max_results) == SubSeq(results, 1, Min(max_results, Len(results)))

\* ------------------------------------------------------------- rerank_results
\* What the chat-completion call of rerank_results can give back: the call
\* raises (an API error or a timeout of the client), the message has no
\* content, the content is not JSON, or the content is the JSON value v.
OracleRaise == [o |-> "raise"]
OracleNoContent == [o |-> "nocontent"]
OracleNotJson == [o |-> "text"]
OracleJson(v) == [o |-> "json", v |-> v]
\* and the placeholder of a call that never reached the oracle
Uncalled == [o |-> "uncalled"]

\* dict.get(key) on a JSON object: None when the key is absent.
ObjGet(obj, key) ==
    IF \E i \in 1..Len(obj.items) : obj.items[i].k = key
    THEN obj.items[CHOOSE i \in 1..Len(obj.items) : obj.items[i].k = key].v
    ELSE None

\* a or b or c: the first truthy operand, else the last one.
OrChain(a, b, c) == IF Truthy(a) THEN a ELSE IF Truthy(b) THEN b ELSE c

\* The loop over result_json.items(): the first value that is a list.
HasListItem(obj) == \E i \in 1..Len(obj.items) : obj.items[i].v.t = "list"
FirstListItem(obj) ==
    LET i == CHOOSE j \in 1..Len(obj.items) :
                 /\ obj.items[j].v.t = "list"
                 /\ \A h \in 1..(j - 1) : obj.items[h].v.t # "list"
    IN obj.items[i].v

\* ranked_indices as lines 315-325 compute it from the parsed response.
RankedIndices(result_json) ==
    IF result_json.t = "obj"
    THEN LET found == OrChain(ObjGet(result_json, "ranking"),
                              ObjGet(result_json, "ranked_indices"),
                              ObjGet(result_json, "indices"))
         IN IF ~Truthy(found) /\ HasListItem(result_json)
            THEN FirstListItem(result_json)
            ELSE found
    ELSE result_json

\* isinstance(i, int): a Python bool is an int (True == 1, False == 0).
IsInstanceInt(e) == e.t \in {"int", "bool"}
AsInt(e) == IF e.t = "bool" THEN (IF e.b THEN 1 ELSE 0) ELSE e.n

\* valid_indices: the entries that are ints within [0, len(results)), in the
\* order given, every occurrence kept.
ValidIndices(ranked_indices, n) ==
    LET kept == SelectSeq(ranked_indices,
                          LAMBDA e : IsInstanceInt(e) /\ 0 <= AsInt(e) /\ AsInt(e) < n)
    IN [j \in 1..Len(kept) |-> AsInt(kept[j])]

\* The ranked results alone.
ReorderedRankedOnly(results, valid_indices) ==
    [j \in 1..Len(valid_indices) |-> results[valid_indices[j] + 1]]

\* Lines 339-344: the ranked results, then the results whose position is not
\* in ranked_set, in input order.
Reordered(results, valid_indices) ==
    LET ranked_set == Range(valid_indices)
        positions == [j \in 1..Len(results) |-> j - 1]
        missing == SelectSeq(positions, LAMBDA i : i \notin ranked_set)
    IN [j \in 1..Len(valid_indices) |-> results[valid_indices[j] + 1]]
       \o [j \in 1..Len(missing) |-> results[missing[j] + 1]]

\* The original order without the cut to max_results.
OriginalOrderUncut(results, max_results) == results

\* Lines 329 and 336: no list, or no valid index: the original order.
OriginalOrder(results, max_results) == Head_(results, max_results)

\* Lines 347-350: json.loads or the parsing raised.
ExceptParse(results, max_results) == Head_(results, max_results)

\* The failure of the oracle call loses the candidates.
ExceptRerankEmpty(results, max_results) == <<>>

\* Lines 352-355: anything else raised, the oracle call included.
ExceptRerank(results, max_results) == Head_(results, max_results)

\* rerank_results(query, results, max_results) with the client handle and the
\* oracle's answer made explicit.  The query only enters the prompt.
rerank_results(client, results, max_results, oracle) ==
    IF results = <<>> THEN <<>>
    ELSE IF ~client THEN Head_(results, max_results)
    ELSE IF oracle.o = "raise" THEN ExceptRerank(results, max_results)
    ELSE IF oracle.o # "json" THEN ExceptParse(results, max_results)
    ELSE LET ranked_indices == RankedIndices(oracle.v)
         IN IF ranked_indices.t # "list" THEN OriginalOrder(results, max_results)
            ELSE LET valid_indices == ValidIndices(ranked_indices.l, Len(results))
                 IN IF valid_indices = <<>> THEN OriginalOrder(results, max_results)
                    ELSE Head_(Reordered(results, valid_indices), max_results)

\* Whether rerank_results reaches the chat-completion call (line 299).
OracleCalled(client, results) == results # <<>> /\ client

\* The oracle's answers drawn for a call with n candidates: index lists of at
\* most maxLen entries (in range, out of range, repeated, bool, string),
\* bare scalars, and JSON objects holding them under the keys the parser
\* looks for and under another key.
RankEntries(n) == {IntV(i) : i \in (-1)..n} \cup {BoolV(TRUE), StrV(<<"0">>)}
RankLists(n, maxLen) == {ListV(l) : l \in SeqsUpTo(RankEntries(n), maxLen)}
JsonScalars == {None, IntV(0), IntV(7), StrV(<<"0">>)}
OracleKeys == {"ranking", "ranked_indices", "indices", "order"}
ShortValues == {None, IntV(7), ListV(<<>>), ListV(<<IntV(0)>>), ListV(<<IntV(1), IntV(0)>>)}
ShortItems == [k : OracleKeys, v : ShortValues]
JsonObjects(n, maxLen) ==
    {ObjV(<<>>)}
    \cup {ObjV(<<[k |-> key, v |-> val]>>) :
            key \in OracleKeys, val \in RankLists(n, maxLen) \cup JsonScalars}
    \cup {ObjV(<<pair[1], pair[2]>>) :
            pair \in {two \in ShortItems \X ShortItems : two[1].k # two[2].k}}
OracleAnswers(n, maxLen) ==
    {OracleRaise, OracleNoContent, OracleNotJson}
    \cup {OracleJson(v) : v \in RankLists(n, maxLen) \cup JsonScalars \cup JsonObjects(n, maxLen)}

\* ------------------------------------------------------------- direct calls
\* rerank_results called on its own: any client handle, a candidate list of
\* distinct row references, any max_results >= 1 and any oracle answer.
CandidateLists(n) == {[i \in 1..n |-> i - 1], [i \in 1..n |-> n - i]}

RerankIdle == [pc |-> "idle"]

\* Line 286: f"Profile {i+1}:", the number under which the prompt shows
\* results[i].
ProfileNumber(i) == i + 1

\* Lines 284-286: the numbers of the prompt's profiles, in input order.
ProfileNumbers(results) == [j \in 1..Len(results) |-> ProfileNumber(j - 1)]

Call(client, results, max_results) ==
    [pc |-> "asked", client |-> client, results |-> results,
     max_results |-> max_results, oracle |-> Uncalled, out |-> <<>>, numbers |-> <<>>]

\* A call that returns without asking the oracle: no candidates, or no client.
RerankNoOracle ==
    /\ rr.pc = "idle"
    /\ \E client \in BOOLEAN, n \in 0..MaxCand, max_results \in 1..(MaxCand + 1) :
         \E results \in CandidateLists(n) :
            /\ ~OracleCalled(client, results)
            /\ rr' = [Call(client, results, max_results) EXCEPT
                         !.pc = "returned",
                         !.out = rerank_results(client, results, max_results, Uncalled)]
    /\ UNCHANGED <<profiles, faiss_index, openai_client, boot, builds, req, core, patch, load, scrape>>

\* A call that reaches the chat-completion request of line 299.
RerankAsk ==
    /\ rr.pc = "idle"
    /\ \E n \in 1..MaxCand, max_results \in 1..(MaxCand + 1) :
         \E results \in CandidateLists(n) :
            /\ OracleCalled(TRUE, results)
            /\ rr' = [Call(TRUE, results, max_results) EXCEPT
                         !.numbers = ProfileNumbers(results)]
    /\ UNCHANGED <<profiles, faiss_index, openai_client, boot, builds, req, core, patch, load, scrape>>

\* The oracle answers (or the request raises) and the call returns.
RerankAnswer ==
    /\ rr.pc = "asked"
    /\ \E oracle \in OracleAnswers(Len(rr.results), MaxRank) :
          rr' = [rr EXCEPT !.pc = "returned", !.oracle = oracle,
                           !.out = rerank_results(rr.client, rr.results, rr.max_results, oracle)]
    /\ UNCHANGED <<profiles, faiss_index, openai_client, boot, builds, req, core, patch, load, scrape>>

RerankReturn ==
    /\ rr.pc = "returned"
    /\ rr' = RerankIdle
    /\ UNCHANGED <<profiles, faiss_index, openai_client, boot, builds, req, core, patch, load, scrape>>

\* ------------------------------------------------------------- strings
\* A Python str is a sequence of characters; the literal labels of the text
\* projection ("Name: ", " | ", ...) are single symbols of such a sequence.
LowerOf == [c \in {"A", "B", "C", "D", "F", "H", "I", "N", "R", "T"} |->
              CASE c = "A" -> "a" [] c = "B" -> "b" [] c = "C" -> "c" [] c = "D" -> "d"
                [] c = "F" -> "f" [] c = "H" -> "h" [] c = "I" -> "i" [] c = "N" -> "n"
                [] c = "R" -> "r" [] c = "T" -> "t"]

\* str.lower()
Lower(s) == [i \in 1..Len(s) |-> IF s[i] \in DOMAIN LowerOf THEN LowerOf[s[i]] ELSE s[i]]

\* a in b, for two strings
Contains(b, a) == \E i \in 0..(Len(b) - Len(a)) : SubSeq(b, i + 1, i + Len(a)) = a

RECURSIVE Join(_, _)
\* sep.join(texts)
Join(texts, sep) ==
    IF texts = <<>> THEN <<>>
    ELSE IF Len(texts) = 1 THEN texts[1]
    ELSE texts[1] \o sep \o Join(Tail(texts), sep)

RECURSIVE Digits(_)
Digits(n) ==
    IF n < 0 THEN <<"-">> \o Digits(-n)
    ELSE IF n < 10 THEN <<CASE n = 0 -> "0" [] n = 1 -> "1" [] n = 2 -> "2" [] n = 3 -> "3"
                            [] n = 4 -> "4" [] n = 5 -> "5" [] n = 6 -> "6" [] n = 7 -> "7"
                            [] n = 8 -> "8" [] n = 9 -> "9">>
    ELSE Digits(n \div 10) \o Digits(n % 10)

RECURSIVE Repr(_)
\* repr(v) of None, bool, int, str (without escapes) and list
Repr(v) ==
    CASE v.t = "none" -> <<"N", "o", "n", "e">>
      [] v.t = "bool" -> IF v.b THEN <<"T", "r", "u", "e">> ELSE <<"F", "a", "l", "s", "e">>
      [] v.t = "int" -> Digits(v.n)
      [] v.t = "str" -> <<"'">> \o v.s \o <<"'">>
      [] v.t = "list" -> <<"[">> \o Join([i \in 1..Len(v.l) |-> Repr(v.l[i])], <<",", " ">>) \o <<"]">>

\* str(v)
StrOf(v) == IF v.t = "str" THEN v.s ELSE Repr(v)

\* ------------------------------------------------------------- dicts
EmptyDict == DictV(<<>>)

\* d.get(key) and d.get(key, default)
Get(d, key) == IF key \in DOMAIN d.d THEN d.d[key] ELSE None
GetOr(d, key, default) == IF key \in DOMAIN d.d THEN d.d[key] ELSE default

\* ------------------------------------------------------------- get_text_representation
ExperienceLimit == 5
EducationLimit == 3
PortfolioLimit == 10

\* f"<label>{value}"
Labeled(label, value) == <<label>> \o StrOf(value)

\* [label + value] if the value is truthy, else nothing
Fragment(label, value) == IF Truthy(value) THEN <<Labeled(label, value)>> ELSE <<>>

\* The characters of a str, each a str of length one: what iterating it gives.
Chars(s) == [i \in 1..Len(s) |-> StrV(<<s[i]>>)]

\* value[:limit] of a list or a str
Sliced(value, limit) ==
    IF value.t = "list" THEN ListV(Head_(value.l, limit)) ELSE StrV(Head_(value.s, limit))

\* f"Label: {', '.join(value)}": the join takes a list of str, or a str (it
\* joins its characters); an item that is not a str, or an int or a bool in
\* place of the list, raises TypeError.
JoinedText(label, value) ==
    IF value.t \in {"int", "bool"} THEN Raised("TypeError")
    ELSE LET items == IF value.t = "str" THEN Chars(value.s) ELSE value.l
         IN IF \E i \in 1..Len(items) : items[i].t # "str" THEN Raised("TypeError")
            ELSE Returned(<<<<label>> \o Join([i \in 1..Len(items) |-> items[i].s],
                                               <<",", " ">>)>>)

\* the joined list if it is truthy, else nothing
JoinedFragment(label, value) ==
    IF Truthy(value) THEN JoinedText(label, value) ELSE Returned(<<>>)

\* The same over the whole of a value that is longer than `limit`.
TruncatedFragmentUncut(label, value, limit) == JoinedFragment(label, value)

\* the same over value[:limit]; the slice of an int or a bool raises TypeError
TruncatedFragment(label, value, limit) ==
    IF ~Truthy(value) THEN Returned(<<>>)
    ELSE IF value.t \in {"int", "bool"} THEN Raised("TypeError")
    ELSE JoinedText(label, Sliced(value, limit))

\* f"{entry.get(first, '')}<mid>{entry.get(second, '')}"
EntryText(entry, first, mid, second) ==
    StrOf(GetOr(entry, first, StrV(<<>>))) \o <<mid>> \o StrOf(GetOr(entry, second, StrV(<<>>)))

\* "Experience: " + "; ".join(f"{a} at {b}" ...) over the first `limit`
\* entries.  An entry that is not a dict has no .get (AttributeError), as
\* have the characters of a str; an int or a bool has no slice (TypeError).
EntriesFragment(label, value, limit, first, mid, second) ==
    IF ~Truthy(value) THEN Returned(<<>>)
    ELSE IF value.t \in {"int", "bool"} THEN Raised("TypeError")
    ELSE IF value.t = "str" THEN Raised("AttributeError")
    ELSE LET entries == Head_(value.l, limit)
         IN IF \E i \in 1..Len(entries) : entries[i].t # "dict" THEN Raised("AttributeError")
            ELSE Returned(<<<<label>> \o Join([i \in 1..Len(entries) |->
                                                 EntryText(entries[i], first, mid, second)],
                                              <<";", " ">>)>>)

RECURSIVE Gathered(_)
\* The fragments of a list of outcomes, or the first exception among them.
Gathered(outcomes) ==
    IF outcomes = <<>> THEN Returned(<<>>)
    ELSE IF Head(outcomes).raised THEN Head(outcomes)
    ELSE LET rest == Gathered(Tail(outcomes))
         IN IF rest.raised THEN rest ELSE Returned(Head(outcomes).value \o rest.value)

\* Lines 114-142: the fragments of personal_info; a personal_info that is
\* not a dict (null, for one) has no .get and raises AttributeError.
PersonalParts(personal) ==
    IF personal.t # "dict" THEN Raised("AttributeError")
    ELSE Gathered(<<
            Returned(Fragment("Headline: ", Get(personal, "headline"))),
            Returned(Fragment("Location: ", Get(personal, "location"))),
            Returned(Fragment("Current Role: ", Get(personal, "current_role"))),
            Returned(Fragment("Company: ", Get(personal, "company"))),
            Returned(Fragment("Summary: ", Get(personal, "summary"))),
            EntriesFragment("Experience: ", GetOr(personal, "experience", ListV(<<>>)),
                            ExperienceLimit, "title", " at ", "company"),
            EntriesFragment("Education: ", GetOr(personal, "education", ListV(<<>>)),
                            EducationLimit, "degree", " from ", "school")>>)

\* Lines 145-157: the fragments of investment_profile, likewise.
InvestmentParts(investment) ==
    IF investment.t # "dict" THEN Raised("AttributeError")
    ELSE Gathered(<<
            Returned(IF Truthy(Get(investment, "is_investor"))
                     THEN <<<<"Is an investor">>>> ELSE <<>>),
            Returned(Fragment("Investment Role: ", Get(investment, "investment_role"))),
            JoinedFragment("Investment Focus: ", Get(investment, "investment_focus")),
            TruncatedFragment("Portfolio Companies: ",
                              Get(investment, "portfolio_companies"), PortfolioLimit),
            JoinedFragment("Sectors of Interest: ", Get(investment, "sectors_of_interest")),
            JoinedFragment("Investment Stage: ", Get(investment, "investment_stage"))>>)

get_text_representation(profile) ==
    LET parts == Gathered(<<
            Returned(Fragment("Name: ", Get(profile, "name"))),
            PersonalParts(GetOr(profile, "personal_info", EmptyDict)),
            InvestmentParts(GetOr(profile, "investment_profile", EmptyDict))>>)
    IN IF parts.raised THEN parts ELSE Returned(Join(parts.value, <<" | ">>))

\* ------------------------------------------------------------- matches_filters
\* A filter key is held as its '.'-separated parts (key.split('.')), so a key
\* contains a '.' iff it has more than one part.
RECURSIVE Walk(_, _)
\* Lines 204-210: follow the parts from the profile; None as soon as the
\* value at hand is not a dict.
Walk(value, parts) ==
    IF parts = <<>> THEN value
    ELSE IF value.t = "dict" THEN Walk(Get(value, Head(parts)), Tail(parts))
    ELSE None

\* x.get(key) of the value a record holds under 'personal_info' or
\* 'investment_profile' ({} when the record has no such key): a value that
\* is not a dict has no .get and raises AttributeError.
SubGet(profile, sub, key) ==
    LET held == GetOr(profile, sub, EmptyDict)
    IN IF held.t = "dict" THEN Returned(Get(held, key)) ELSE Raised("AttributeError")

\* The lookup that takes investment_profile before personal_info.
ProfileValueInvestmentFirst(profile, key) ==
    IF Len(key) > 1 THEN Returned(Walk(profile, key))
    ELSE LET direct == Get(profile, key[1])
         IN IF direct # None THEN Returned(direct)
            ELSE LET investment == SubGet(profile, "investment_profile", key[1])
                 IN IF investment.raised THEN investment
                    ELSE IF investment.value # None THEN investment
                    ELSE SubGet(profile, "personal_info", key[1])

\* Lines 202-221: the profile-side value of a filter key.
ProfileValue(profile, key) ==
    IF Len(key) > 1 THEN Returned(Walk(profile, key))
    ELSE LET direct == Get(profile, key[1])
         IN IF direct # None THEN Returned(direct)
            ELSE LET personal == SubGet(profile, "personal_info", key[1])
                 IN IF personal.raised THEN personal
                    ELSE IF personal.value # None THEN personal
                    ELSE SubGet(profile, "investment_profile", key[1])

\* Python == between two values: a bool compares as the int 0 or 1.
PyEq(a, b) ==
    IF IsInstanceInt(a) /\ IsInstanceInt(b) THEN AsInt(a) = AsInt(b) ELSE a = b

LowerStrs(values) == {Lower(StrOf(values[i])) : i \in 1..Len(values)}

\* The pair test with the list branch comparing without .lower().
PairMatchesCaseSensitive(profile_value, value) ==
    CASE value.t = "none" -> profile_value = None
      [] value.t = "bool" -> PyEq(profile_value, value)
      [] value.t = "list" ->
            IF profile_value.t = "list"
            THEN {StrOf(value.l[i]) : i \in 1..Len(value.l)}
                    \cap {StrOf(profile_value.l[i]) : i \in 1..Len(profile_value.l)} # {}
            ELSE IF profile_value.t = "str"
            THEN \E i \in 1..Len(value.l) : Contains(profile_value.s, StrOf(value.l[i]))
            ELSE /\ profile_value # None
                 /\ StrOf(profile_value) \in {StrOf(value.l[i]) : i \in 1..Len(value.l)}
      [] value.t = "str" ->
            /\ Truthy(profile_value)
            /\ Contains(Lower(StrOf(profile_value)), Lower(value.s))
      [] OTHER -> PyEq(profile_value, value)

\* The pair test with a boolean filter that lets an absent value pass.
PairMatchesAbsentPasses(profile_value, value) ==
    CASE value.t = "none" -> profile_value = None
      [] value.t = "bool" -> profile_value = None \/ PyEq(profile_value, value)
      [] value.t = "list" ->
            IF profile_value.t = "list"
            THEN LowerStrs(value.l) \cap LowerStrs(profile_value.l) # {}
            ELSE IF profile_value.t = "str"
            THEN \E i \in 1..Len(value.l) :
                    Contains(Lower(profile_value.s), Lower(StrOf(value.l[i])))
            ELSE /\ profile_value # None
                 /\ Lower(StrOf(profile_value)) \in LowerStrs(value.l)
      [] value.t = "str" ->
            /\ Truthy(profile_value)
            /\ Contains(Lower(StrOf(profile_value)), Lower(value.s))
      [] OTHER -> PyEq(profile_value, value)

\* Lines 224-257: one (key, value) pair against the profile-side value.
PairMatches(profile_value, value) ==
    CASE value.t = "none" -> profile_value = None
      [] value.t = "bool" -> PyEq(profile_value, value)
      [] value.t = "list" ->
            IF profile_value.t = "list"
            THEN LowerStrs(value.l) \cap LowerStrs(profile_value.l) # {}
            ELSE IF profile_value.t = "str"
            THEN \E i \in 1..Len(value.l) :
                    Contains(Lower(profile_value.s), Lower(StrOf(value.l[i])))
            ELSE /\ profile_value # None
                 /\ Lower(StrOf(profile_value)) \in LowerStrs(value.l)
      [] value.t = "str" ->
            /\ Truthy(profile_value)
            /\ Contains(Lower(StrOf(profile_value)), Lower(value.s))
      [] OTHER -> PyEq(profile_value, value)

\* A filter mapping is None or a dict; its pairs are held in the order
\* filters.items() gives them, each key once.
Pair(key, value) == [k |-> key, v |-> value]
Filters(items) == ObjV(items)

RECURSIVE MatchItems(_, _)
\* Lines 200-259: the loop over the pairs; the first pair that does not
\* pass returns False, the first lookup that raises ends the call.
MatchItems(profile, items) ==
    IF items = <<>> THEN Returned(TRUE)
    ELSE LET profile_value == ProfileValue(profile, Head(items).k)
         IN IF profile_value.raised THEN profile_value
            ELSE IF ~PairMatches(profile_value.value, Head(items).v) THEN Returned(FALSE)
            ELSE MatchItems(profile, Tail(items))

matches_filters(profile, filters) ==
    IF ~Truthy(filters) THEN Returned(TRUE) ELSE MatchItems(profile, filters.items)

\* ------------------------------------------------------------- embeddings and index
\* The embedding provider is external: it is taken to be a deterministic
\* function of the text, here the counts of two feature characters.
Features == <<"F", "T">>

Count(text, c) == Cardinality({i \in 1..Len(text) : text[i] = c})

EmbedText(text) == [f \in 1..Len(Features) |-> Count(text, Features[f])]

\* Lines 176-181: one vector per input text, in input order.
create_embeddings(texts) == [i \in 1..Len(texts) |-> EmbedText(texts[i])]

RECURSIVE SumSq(_, _, _)
SumSq(a, b, i) == IF i = 0 THEN 0 ELSE (a[i] - b[i]) * (a[i] - b[i]) + SumSq(a, b, i - 1)

\* squared Euclidean distance, as IndexFlatL2 reports it
L2(a, b) == SumSq(a, b, Len(a))

\* faiss.IndexFlatL2(dimension) and index.add(embeddings)
IndexFlatL2(dimension) == [t |-> "index", d |-> dimension, rows |-> <<>>]
IndexAdd(index, embeddings) == [index EXCEPT !.rows = @ \o embeddings]
ntotal(index) == Len(index.rows)

\* index.search(query_embedding, k): every list of k distinct rows (0-based)
\* in ascending distance that leaves out no nearer row; rows at equal
\* distance come in any order.
IndexSearch(index, qvec, k) ==
    LET dist(r) == L2(index.rows[r + 1], qvec)
    IN {rows \in [1..k -> 0..(ntotal(index) - 1)] :
          /\ \A i, j \in 1..k : i < j => rows[i] # rows[j] /\ dist(rows[i]) <= dist(rows[j])
          /\ \A r \in 0..(ntotal(index) - 1) :
                r \notin Range(rows) => \A i \in 1..k : dist(rows[i]) <= dist(r)}

\* ------------------------------------------------------------- the inputs drawn
ProfileA ==
    DictV([name |-> StrV(<<"A">>),
           personal_info |-> DictV([location |-> StrV(<<"T", "a">>)]),
           investment_profile |->
              DictV([is_investor |-> BoolV(TRUE),
                     sectors_of_interest |-> ListV(<<StrV(<<"F", "i">>), StrV(<<"A", "I">>)>>)])])
ProfileB ==
    DictV([name |-> StrV(<<"B">>),
           personal_info |-> DictV([location |-> StrV(<<"R", "i">>)]),
           investment_profile |-> DictV([is_investor |-> BoolV(FALSE)])])
ProfileC ==
    DictV([name |-> StrV(<<"C">>),
           personal_info |-> DictV([location |-> StrV(<<"T", "a">>)]),
           investment_profile |->
              DictV([is_investor |-> BoolV(TRUE),
                     sectors_of_interest |-> ListV(<<StrV(<<"H", "e">>)>>)])])
ProfileD == DictV([name |-> StrV(<<"D">>)])
\* a record whose personal_info is null
ProfileE == DictV([name |-> StrV(<<"E">>), personal_info |-> None])

ProfileUniverse == {ProfileA, ProfileB, ProfileC, ProfileD, ProfileE}

\* The profile files a startup can load: lists of at most MaxProfiles
\* records, no record twice.
Stores ==
    {store \in SeqsUpTo(ProfileUniverse, MaxProfiles) :
        \A i, j \in 1..Len(store) : i # j => store[i] # store[j]}

Queries == {<<"F", "i">>, <<"F", "i", " ", "T", "a">>}

NoFilters == None
FilterUniverse ==
    {NoFilters,
     Filters(<<>>),
     Filters(<<Pair(<<"is_investor">>, BoolV(TRUE))>>),
     Filters(<<Pair(<<"location">>, StrV(<<"t", "a">>))>>),
     Filters(<<Pair(<<"sectors_of_interest">>, ListV(<<StrV(<<"f", "i">>)>>))>>),
     Filters(<<Pair(<<"investment_profile", "is_investor">>, BoolV(FALSE))>>),
     Filters(<<Pair(<<"is_investor">>, BoolV(TRUE)), Pair(<<"location">>, StrV(<<"R", "I">>))>>)}

\* The oracle's answers drawn for a /search request with n filtered candidates.
IdentityRanking(n) == ListV([i \in 1..n |-> IntV(i - 1)])
ReverseRanking(n) == ListV([i \in 1..n |-> IntV(n - i)])
RepeatedRanking == ListV(<<IntV(0), IntV(0)>>)
FixedRankLists(n) == {IdentityRanking(n), ReverseRanking(n), RepeatedRanking}
ServedRankLists(n) ==
    {ListV(l) : l \in SeqsUpTo({IntV(i) : i \in (-1)..n}, MaxServedRank)}
    \cup FixedRankLists(n)
ServedAnswers(n) ==
    {OracleRaise, OracleNoContent, OracleNotJson, OracleJson(IntV(7))}
    \cup {OracleJson(v) : v \in ServedRankLists(n)}
    \cup {OracleJson(ObjV(<<[k |-> "ranking", v |-> v]>>)) : v \in FixedRankLists(n)}

\* ------------------------------------------------------------- startup_event
\* The texts in reverse store order.
ProfileTextsReversed(store) ==
    LET texts == [i \in 1..Len(store) |-> get_text_representation(store[Len(store) + 1 - i])]
    IN IF \E i \in 1..Len(store) : texts[i].raised
       THEN texts[CHOOSE i \in 1..Len(store) :
                     texts[i].raised /\ \A j \in 1..(i - 1) : ~texts[j].raised]
       ELSE Returned([i \in 1..Len(store) |-> texts[i].value])

\* Line 396: the text of every record, in store order, or the exception of
\* the first record whose text cannot be made.
ProfileTexts(store) ==
    LET texts == [i \in 1..Len(store) |-> get_text_representation(store[i])]
    IN IF \E i \in 1..Len(store) : texts[i].raised
       THEN texts[CHOOSE i \in 1..Len(store) :
                     texts[i].raised /\ \A j \in 1..(i - 1) : ~texts[j].raised]
       ELSE Returned([i \in 1..Len(store) |-> texts[i].value])

Booting(pc) == [pc |-> pc, embeddings |-> <<>>]

\* Lines 418-423: the client handle is set iff OPENAI_API_KEY is set.
StartupClient ==
    /\ boot.pc = "start"
    /\ \E api_key \in BOOLEAN : openai_client' = api_key
    /\ boot' = Booting("client")
    /\ UNCHANGED <<profiles, faiss_index, builds, req, rr, core, patch, load, scrape>>

\* Lines 436-446: some candidate file exists and loads as a list.
StartupLoad ==
    /\ boot.pc = "client"
    /\ \E loaded \in Stores : profiles' = loaded
    /\ boot' = Booting("loaded")
    /\ UNCHANGED <<faiss_index, openai_client, builds, req, rr, core, patch, load, scrape>>

\* Lines 448-452: no file loaded; the store is empty and startup returns.
StartupNoFile ==
    /\ boot.pc = "client"
    /\ profiles' = <<>>
    /\ boot' = Booting("done")
    /\ UNCHANGED <<faiss_index, openai_client, builds, req, rr, core, patch, load, scrape>>

\* Lines 457-458: no client, the index is not built.
StartupNoClient ==
    /\ boot.pc = "loaded"
    /\ ~openai_client
    /\ boot' = Booting("done")
    /\ UNCHANGED <<profiles, faiss_index, openai_client, builds, req, rr, core, patch, load, scrape>>

\* initialize_faiss_index, lines 389-391: nothing to index.
IndexNothing ==
    /\ boot.pc = "loaded"
    /\ openai_client
    /\ profiles = <<>>
    /\ boot' = Booting("done")
    /\ UNCHANGED <<profiles, faiss_index, openai_client, builds, req, rr, core, patch, load, scrape>>

\* initialize_faiss_index, line 396: get_text_representation raises on a
\* record and so does startup_event; nothing is embedded, faiss_index is
\* left as it was.
IndexTextFails ==
    /\ boot.pc = "loaded"
    /\ openai_client
    /\ profiles # <<>>
    /\ ProfileTexts(profiles).raised
    /\ boot' = Booting("failed")
    /\ UNCHANGED <<profiles, faiss_index, openai_client, builds, req, rr, core, patch, load, scrape>>

\* initialize_faiss_index, line 399: the embedding call raises and so does
\* startup_event; faiss_index is left as it was.
IndexEmbedFails ==
    /\ boot.pc = "loaded"
    /\ openai_client
    /\ profiles # <<>>
    /\ ~ProfileTexts(profiles).raised
    /\ boot' = Booting("failed")
    /\ UNCHANGED <<profiles, faiss_index, openai_client, builds, req, rr, core, patch, load, scrape>>

\* initialize_faiss_index, lines 396-405: the texts are embedded in one call
\* and an empty flat index of their dimension is assigned to faiss_index.
IndexCreate ==
    /\ boot.pc = "loaded"
    /\ openai_client
    /\ profiles # <<>>
    /\ ~ProfileTexts(profiles).raised
    /\ LET texts == ProfileTexts(profiles).value
           embeddings == create_embeddings(texts)
       IN /\ faiss_index' = IndexFlatL2(Len(embeddings[1]))
          /\ boot' = [pc |-> "created", embeddings |-> embeddings]
    /\ builds' = builds + 1
    /\ UNCHANGED <<profiles, openai_client, req, rr, core, patch, load, scrape>>

\* initialize_faiss_index, line 408: the vectors are added, and startup ends.
IndexFill ==
    /\ boot.pc = "created"
    /\ faiss_index' = IndexAdd(faiss_index, boot.embeddings)
    /\ boot' = Booting("done")
    /\ UNCHANGED <<profiles, openai_client, builds, req, rr, core, patch, load, scrape>>

\* ------------------------------------------------------------- search
OverFetch == 3

NoRequest ==
    [pc |-> "idle", route |-> "none", has_query |-> TRUE,
     query |-> <<>>, max_results |-> 0, filters |-> None,
     k |-> 0, indices |-> <<>>, candidates |-> <<>>, filtered |-> <<>>,
     oracle |-> Uncalled, status |-> 0, results |-> <<>>, total_found |-> 0,
     echo |-> <<>>, embed |-> "none", embed_calls |-> 0, index_reads |-> 0, oracle_calls |-> 0,
     params |-> None, profile_id |-> 0, skip |-> 0, limit |-> 0, body |-> None]

Request(query, max_results, filters) ==
    [NoRequest EXCEPT !.route = "POST /search", !.query = query,
                      !.max_results = max_results, !.filters = filters]

\* Lines 71-75: the body of POST /search as the request model declares it.
\* query is required and is any string, the empty one included;
\* max_results lies within [max_results_ge, max_results_le].
max_results_ge == 1
max_results_le == 100

Body(has_query, query, max_results, filters) ==
    [has_query |-> has_query, query |-> query, max_results |-> max_results, filters |-> filters]

Validates(body) ==
    /\ body.has_query
    /\ body.max_results >= max_results_ge
    /\ body.max_results <= max_results_le

\* The bodies sent to POST /search: every query with every width and filter
\* mapping, the empty query, a body without query, and widths outside the
\* declared range.
EmptyQuery == <<>>
SearchBodies ==
    {Body(TRUE, query, max_results, filters) :
        query \in Queries, max_results \in 1..MaxResults, filters \in FilterUniverse}
    \cup {Body(TRUE, EmptyQuery, 1, NoFilters)}
    \cup {Body(FALSE, EmptyQuery, 1, NoFilters)}
    \cup {Body(TRUE, <<"F", "i">>, max_results, NoFilters) :
            max_results \in {-1, 0, max_results_le + 1}}

RequestOf(body) ==
    [Request(body.query, body.max_results, body.filters) EXCEPT !.has_query = body.has_query]

\* The width without the over-fetch.
RetrievalWidthNoOverFetch(max_results, total) == Min(max_results, total)

\* Line 507: the number of neighbours asked for.
RetrievalWidth(max_results, total) == Min(max_results * OverFetch, total)

\* The rows within the store in row order, the distance order lost.
CandidateProfilesByRow(indices, store) ==
    SelectSeq([i \in 1..Len(store) |-> i - 1], LAMBDA idx : idx \in Range(indices))

\* Line 511: the rows within the store, in the order the index gave them.
\* A result is the reference to profiles[idx], held as idx.
CandidateProfiles(indices, store) ==
    SelectSeq(indices, LAMBDA idx : 0 <= idx /\ idx < Len(store))

\* The candidates as they are, the filters not applied.
FilteredProfilesUnfiltered(candidate_profiles, store, filters) ==
    Returned(candidate_profiles)

\* Lines 514-520: the candidates that pass the filters, order kept; an
\* exception of matches_filters on a candidate ends the comprehension.
FilteredProfiles(candidate_profiles, store, filters) ==
    IF ~Truthy(filters) THEN Returned(candidate_profiles)
    ELSE LET matched == [i \in 1..Len(candidate_profiles) |->
                            matches_filters(store[candidate_profiles[i] + 1], filters)]
         IN IF \E i \in 1..Len(matched) : matched[i].raised
            THEN matched[CHOOSE i \in 1..Len(matched) :
                            matched[i].raised /\ \A j \in 1..(i - 1) : ~matched[j].raised]
            ELSE Returned(SelectSeq(candidate_profiles,
                                    LAMBDA idx : matches_filters(store[idx + 1], filters).value))

\* The refusals without the check for an index that holds no vector.
UnreadyNoEmptyCheck ==
    IF profiles = <<>> THEN TRUE
    ELSE IF faiss_index = None THEN TRUE
    ELSE ~openai_client

\* Lines 493-500: the three refusals.
Unready ==
    IF profiles = <<>> THEN TRUE
    ELSE IF faiss_index = None THEN TRUE
    ELSE IF ntotal(faiss_index) = 0 THEN TRUE
    ELSE ~openai_client

\* The refusal after the query was embedded.
SearchRefusedAfterEmbedding ==
    /\ req.pc = "idle"
    /\ Unready
    /\ \E body \in SearchBodies :
          /\ Validates(body)
          /\ req' = [RequestOf(body) EXCEPT !.pc = "responded", !.status = 503,
                                             !.embed_calls = 1]
    /\ UNCHANGED <<profiles, faiss_index, openai_client, boot, builds, rr, core, patch, load, scrape>>

\* Lines 71-75 and 482: a body the request model rejects is answered with
\* 422 by the framework; the handler is not entered.
UnprocessableEntity == 422

SearchInvalid ==
    /\ req.pc = "idle"
    /\ \E body \in SearchBodies :
          /\ ~Validates(body)
          /\ req' = [RequestOf(body) EXCEPT !.pc = "responded", !.status = UnprocessableEntity]
    /\ UNCHANGED <<profiles, faiss_index, openai_client, boot, builds, rr, core, patch, load, scrape>>

\* A request arrives and is refused with 503.
SearchRefused ==
    /\ req.pc = "idle"
    /\ Unready
    /\ \E body \in SearchBodies :
          /\ Validates(body)
          /\ req' = [RequestOf(body) EXCEPT !.pc = "responded", !.status = 503]
    /\ UNCHANGED <<profiles, faiss_index, openai_client, boot, builds, rr, core, patch, load, scrape>>

\* A request arrives, passes the checks and calls create_embeddings (line 504).
SearchAccepted ==
    /\ req.pc = "idle"
    /\ ~Unready
    /\ \E body \in SearchBodies :
          /\ Validates(body)
          /\ req' = [RequestOf(body) EXCEPT !.pc = "embedding", !.embed_calls = 1]
    /\ UNCHANGED <<profiles, faiss_index, openai_client, boot, builds, rr, core, patch, load, scrape>>

\* create_embeddings raises HTTPException(500); line 531 turns it into the
\* 500 response of the request.
SearchEmbedFails ==
    /\ req.pc = "embedding"
    /\ req' = [req EXCEPT !.pc = "responded", !.status = 500, !.embed = "failed"]
    /\ UNCHANGED <<profiles, faiss_index, openai_client, boot, builds, rr, core, patch, load, scrape>>

\* Lines 507-520 (and line 523 when nothing is left to rerank): the k nearest
\* rows, the records they refer to, the ones that pass the filters; an
\* exception of the filtering is the 500 response of line 532.
SearchRetrieve ==
    /\ req.pc = "embedding"
    /\ LET query_embedding == create_embeddings(<<req.query>>)
           k == RetrievalWidth(req.max_results, ntotal(faiss_index))
       IN \E indices \in IndexSearch(faiss_index, query_embedding[1], k) :
            LET candidate_profiles == CandidateProfiles(indices, profiles)
                filtered == FilteredProfiles(candidate_profiles, profiles, req.filters)
                read == [req EXCEPT !.k = k, !.indices = indices, !.index_reads = 1,
                                    !.embed = "ok", !.candidates = candidate_profiles]
            IN IF filtered.raised
               THEN req' = [read EXCEPT !.pc = "responded", !.status = 500]
               ELSE LET filtered_profiles == filtered.value
                        found == [read EXCEPT !.filtered = filtered_profiles]
                    IN IF OracleCalled(openai_client, filtered_profiles)
                       THEN req' = [found EXCEPT !.pc = "reranking", !.oracle_calls = 1]
                       ELSE LET reranked_profiles ==
                                    rerank_results(openai_client, filtered_profiles,
                                                   req.max_results, Uncalled)
                            IN req' = [found EXCEPT !.pc = "responded", !.status = 200,
                                                    !.results = reranked_profiles,
                                                    !.total_found = Len(reranked_profiles),
                                                    !.echo = req.query]
    /\ UNCHANGED <<profiles, faiss_index, openai_client, boot, builds, rr, core, patch, load, scrape>>

\* The oracle call that neither returns nor raises.
SearchRerankHangs ==
    /\ req.pc = "reranking"
    /\ UNCHANGED vars

\* Lines 523-529: the oracle's answer arrives (or the call raises), and
\* rerank_results gives the response's results.
SearchRerank ==
    /\ req.pc = "reranking"
    /\ \E oracle \in ServedAnswers(Len(req.filtered)) :
          LET reranked_profiles ==
                  rerank_results(openai_client, req.filtered, req.max_results, oracle)
          IN req' = [req EXCEPT !.pc = "responded", !.status = 200, !.oracle = oracle,
                                !.results = reranked_profiles,
                                !.total_found = Len(reranked_profiles),
                                !.echo = req.query]
    /\ UNCHANGED <<profiles, faiss_index, openai_client, boot, builds, rr, core, patch, load, scrape>>

\* The response is sent; the next request can be handled.
SearchDone ==
    /\ req.pc = "responded"
    /\ req' = NoRequest
    /\ UNCHANGED <<profiles, faiss_index, openai_client, boot, builds, rr, core, patch, load, scrape>>

\* search(request), lines 482-532, as a function of the body and of what
\* the outside gives: whether the embedding call returns, the row order the
\* index returns, and the oracle's answer (Uncalled when it is not asked).
Response(status, results, total_found, echo) ==
    [status |-> status, results |-> results, total_found |-> total_found, echo |-> echo]

Failure(status) == Response(status, <<>>, 0, <<>>)

search(body, embedded, indices, oracle) ==
    IF ~Validates(body) THEN Failure(UnprocessableEntity)
    ELSE IF Unready THEN Failure(503)
    ELSE IF ~embedded THEN Failure(500)
    ELSE LET filtered == FilteredProfiles(CandidateProfiles(indices, profiles), profiles,
                                          body.filters)
         IN IF filtered.raised THEN Failure(500)
            ELSE LET reranked_profiles ==
                         rerank_results(openai_client, filtered.value, body.max_results, oracle)
                 IN Response(200, reranked_profiles, Len(reranked_profiles), body.query)

\* ------------------------------------------------------------- search_get
\* The characters trimmed by str.strip() that the inputs use.
Whitespace == {" "}

\* s.strip(): the whitespace at both ends removed.
RECURSIVE LStrip(_)
LStrip(s) == IF s # <<>> /\ s[1] \in Whitespace THEN LStrip(Tail(s)) ELSE s

RECURSIVE RStrip(_)
RStrip(s) ==
    IF s # <<>> /\ s[Len(s)] \in Whitespace THEN RStrip(SubSeq(s, 1, Len(s) - 1)) ELSE s

Strip(s) == RStrip(LStrip(s))

\* s.split(','): the pieces between the commas, the empty ones kept.
RECURSIVE Split(_)
Split(s) ==
    IF \A i \in 1..Len(s) : s[i] # ","
    THEN <<s>>
    ELSE LET i == CHOOSE i \in 1..Len(s) : s[i] = "," /\ \A j \in 1..(i - 1) : s[j] # ","
         IN <<SubSeq(s, 1, i - 1)>> \o Split(SubSeq(s, i + 1, Len(s)))

\* Lines 556 and 558: [s.strip() for s in value.split(',')]
SplitTrimmed(value) ==
    LET pieces == Split(value.s)
    IN ListV([i \in 1..Len(pieces) |-> StrV(Strip(pieces[i]))])

\* The query parameters of GET /search/get; a parameter not supplied is None.
Params(query, max_results, is_investor, investment_role, location, sectors, investment_stage) ==
    [has_query |-> TRUE, query |-> query, max_results |-> max_results,
     is_investor |-> is_investor, investment_role |-> investment_role,
     location |-> location, sectors |-> sectors, investment_stage |-> investment_stage]

\* The mapping with is_investor kept only when it is true.
BuiltFiltersTruthyOnly(params) ==
    (IF Truthy(params.is_investor)
        THEN <<Pair(<<"is_investor">>, params.is_investor)>> ELSE <<>>)
    \o (IF Truthy(params.investment_role)
        THEN <<Pair(<<"investment_role">>, params.investment_role)>> ELSE <<>>)
    \o (IF Truthy(params.location)
        THEN <<Pair(<<"location">>, params.location)>> ELSE <<>>)
    \o (IF Truthy(params.sectors)
        THEN <<Pair(<<"sectors_of_interest">>, SplitTrimmed(params.sectors))>> ELSE <<>>)
    \o (IF Truthy(params.investment_stage)
        THEN <<Pair(<<"investment_stage">>, SplitTrimmed(params.investment_stage))>> ELSE <<>>)

\* Lines 548-558: the filter mapping built from the parameters, in the
\* order of the assignments.
BuiltFilters(params) ==
    (IF params.is_investor # None
        THEN <<Pair(<<"is_investor">>, params.is_investor)>> ELSE <<>>)
    \o (IF Truthy(params.investment_role)
        THEN <<Pair(<<"investment_role">>, params.investment_role)>> ELSE <<>>)
    \o (IF Truthy(params.location)
        THEN <<Pair(<<"location">>, params.location)>> ELSE <<>>)
    \o (IF Truthy(params.sectors)
        THEN <<Pair(<<"sectors_of_interest">>, SplitTrimmed(params.sectors))>> ELSE <<>>)
    \o (IF Truthy(params.investment_stage)
        THEN <<Pair(<<"investment_stage">>, SplitTrimmed(params.investment_stage))>> ELSE <<>>)

\* Lines 560-564: the SearchRequest made of the parameters; an empty
\* mapping becomes None.
search_get(params) ==
    LET filters == BuiltFilters(params)
    IN [Request(params.query, params.max_results,
                IF filters # <<>> THEN Filters(filters) ELSE None)
        EXCEPT !.route = "GET /search/get", !.has_query = params.has_query, !.params = params]

\* The parameter sets sent to GET /search/get.
NoParams(query, max_results) == Params(query, max_results, None, None, None, None, None)

GetParams ==
    LET q == <<"F", "i">>
        none == NoParams(q, 1)
    IN {none,
        NoParams(q, 2),
        NoParams(EmptyQuery, 1),
        [none EXCEPT !.has_query = FALSE, !.query = EmptyQuery],
        NoParams(q, 0),
        NoParams(q, max_results_le + 1),
        [none EXCEPT !.is_investor = BoolV(TRUE)],
        [none EXCEPT !.is_investor = BoolV(FALSE)],
        [none EXCEPT !.investment_role = StrV(<<>>), !.location = StrV(<<>>),
                     !.sectors = StrV(<<>>), !.investment_stage = StrV(<<>>)],
        [none EXCEPT !.investment_role = StrV(<<"a", "n">>)],
        [none EXCEPT !.location = StrV(<<"t", "a">>)],
        [none EXCEPT !.sectors = StrV(<<" ", "f", "i", " ", ",", "A", "I">>)],
        [none EXCEPT !.sectors = StrV(<<" ">>)],
        [none EXCEPT !.investment_stage = StrV(<<"s", ",", ",", " ", "a">>)],
        [none EXCEPT !.max_results = 2, !.is_investor = BoolV(TRUE),
                     !.location = StrV(<<"R", "I">>),
                     !.sectors = StrV(<<"f", "i", ",", " ", "h">>)]}

\* Lines 537-538: the parameters the declaration rejects are answered with
\* 422 by the framework; search_get is not entered.
SearchGetInvalid ==
    /\ req.pc = "idle"
    /\ \E params \in GetParams :
          /\ ~Validates(params)
          /\ req' = [search_get(params) EXCEPT !.pc = "responded", !.status = UnprocessableEntity,
                                               !.filters = None]
    /\ UNCHANGED <<profiles, faiss_index, openai_client, boot, builds, rr, core, patch, load, scrape>>

\* Line 566: search(request), refused with 503.
SearchGetRefused ==
    /\ req.pc = "idle"
    /\ Unready
    /\ \E params \in GetParams :
          /\ Validates(params)
          /\ req' = [search_get(params) EXCEPT !.pc = "responded", !.status = 503]
    /\ UNCHANGED <<profiles, faiss_index, openai_client, boot, builds, rr, core, patch, load, scrape>>

\* Line 566: search(request), past the checks; the request goes on as a
\* POST request does.
SearchGetAccepted ==
    /\ req.pc = "idle"
    /\ ~Unready
    /\ \E params \in GetParams :
          /\ Validates(params)
          /\ req' = [search_get(params) EXCEPT !.pc = "embedding", !.embed_calls = 1]
    /\ UNCHANGED <<profiles, faiss_index, openai_client, boot, builds, rr, core, patch, load, scrape>>

\* ------------------------------------------------------------- get_profile, list_profiles, health, root
ServiceUnavailable == 503
NotFound == 404
Ok == 200

Reply(status, body) == [status |-> status, body |-> body]

\* Lines 580-587.
get_profile(store, profile_id) ==
    IF store = <<>> THEN Reply(ServiceUnavailable, None)
    ELSE IF profile_id < 0 \/ profile_id >= Len(store) THEN Reply(NotFound, None)
    ELSE Reply(Ok, store[profile_id + 1])

\* store[skip:skip + limit] for skip >= 0 and limit >= 1
Slice(store, skip, limit) == SubSeq(store, skip + 1, Min(skip + limit, Len(store)))

\* Lines 605-613.
list_profiles(store, skip, limit) ==
    IF store = <<>> THEN Reply(ServiceUnavailable, None)
    ELSE Reply(Ok, [t |-> "page", profiles |-> Slice(store, skip, limit),
                    total |-> Len(store), skip |-> skip, limit |-> limit])

\* Lines 592-593: the declared ranges of skip and limit.
skip_ge == 0
limit_ge == 1
limit_le == 100

PageValidates(skip, limit) == skip >= skip_ge /\ limit >= limit_ge /\ limit <= limit_le

\* Lines 464-469.
root(store, index) ==
    [t |-> "root", profiles_loaded |-> Len(store),
     faiss_index_ready |-> IF index = None THEN FALSE ELSE ntotal(index) > 0]

\* Lines 475-479.
health(store, index) ==
    [t |-> "health", profiles_count |-> Len(store),
     index_ready |-> IF index = None THEN FALSE ELSE ntotal(index) > 0]

\* The ids and the pages asked for.
ProfileIds == (-2)..(MaxServedProfiles + 1)
Skips == (-1)..(MaxServedProfiles + 1)
Limits == (0..(MaxServedProfiles + 1)) \cup {limit_le, limit_le + 1}

Lookup(route) == [NoRequest EXCEPT !.route = route, !.pc = "responded"]

\* The lookup that takes the record out of the store (profiles.pop).
GetProfileRemoves ==
    /\ req.pc = "idle"
    /\ \E profile_id \in ProfileIds :
          LET reply == get_profile(profiles, profile_id)
          IN /\ req' = [Lookup("GET /profiles/{profile_id}") EXCEPT
                           !.profile_id = profile_id, !.status = reply.status,
                           !.body = reply.body]
             /\ profiles' = IF reply.status = Ok
                            THEN SubSeq(profiles, 1, profile_id)
                                 \o SubSeq(profiles, profile_id + 2, Len(profiles))
                            ELSE profiles
    /\ UNCHANGED <<faiss_index, openai_client, boot, builds, rr, core, patch, load, scrape>>

GetProfile ==
    /\ req.pc = "idle"
    /\ \E profile_id \in ProfileIds :
          LET reply == get_profile(profiles, profile_id)
          IN req' = [Lookup("GET /profiles/{profile_id}") EXCEPT
                        !.profile_id = profile_id, !.status = reply.status, !.body = reply.body]
    /\ UNCHANGED <<profiles, faiss_index, openai_client, boot, builds, rr, core, patch, load, scrape>>

ListProfiles ==
    /\ req.pc = "idle"
    /\ \E skip \in Skips, limit \in Limits :
          LET reply == IF PageValidates(skip, limit)
                       THEN list_profiles(profiles, skip, limit)
                       ELSE Reply(UnprocessableEntity, None)
          IN req' = [Lookup("GET /profiles") EXCEPT
                        !.skip = skip, !.limit = limit,
                        !.status = reply.status, !.body = reply.body]
    /\ UNCHANGED <<profiles, faiss_index, openai_client, boot, builds, rr, core, patch, load, scrape>>

Health ==
    /\ req.pc = "idle"
    /\ req' = [Lookup("GET /health") EXCEPT !.status = Ok, !.body = health(profiles, faiss_index)]
    /\ UNCHANGED <<profiles, faiss_index, openai_client, boot, builds, rr, core, patch, load, scrape>>

Root ==
    /\ req.pc = "idle"
    /\ req' = [Lookup("GET /") EXCEPT !.status = Ok, !.body = root(profiles, faiss_index)]
    /\ UNCHANGED <<profiles, faiss_index, openai_client, boot, builds, rr, core, patch, load, scrape>>

\* ------------------------------------------------------------- direct calls of the core functions
\* get_text_representation and matches_filters called on their own, on
\* records with absent, empty and null fields and with list fields longer
\* than the truncation limits.
Absent == [t |-> "absent"]

\* The dict of the fields that are not Absent.
Record(fields) ==
    DictV([k \in {f \in DOMAIN fields : fields[f] # Absent} |-> fields[k]])

\* The strings t1, t2, ..., and lists of them and of entries made of them.
Token(prefix, i) == StrV(<<prefix>> \o Digits(i))
TokenList(prefix, n) == ListV([i \in 1..n |-> Token(prefix, i)])
ExperienceList(n) ==
    ListV([i \in 1..n |-> DictV([title |-> Token("t", i), company |-> Token("c", i)])])
EducationList(n) ==
    ListV([i \in 1..n |-> DictV([degree |-> Token("d", i), school |-> Token("s", i)])])

NameInputs == {Absent, None, StrV(<<>>), StrV(<<"A">>)}

PersonalInputs ==
    {Absent, None, EmptyDict,
     DictV([headline |-> StrV(<<"H">>), location |-> StrV(<<"T", "a">>),
            current_role |-> StrV(<<"R">>), company |-> StrV(<<"C">>),
            summary |-> StrV(<<"N">>)]),
     DictV([headline |-> None, location |-> StrV(<<>>), summary |-> None,
            experience |-> None, education |-> ListV(<<>>)]),
     DictV([experience |-> ListV(<<EmptyDict>>)]),
     DictV([experience |-> ListV(<<DictV([title |-> StrV(<<"T">>)])>>)]),
     DictV([experience |-> ListV(<<DictV([title |-> None, company |-> StrV(<<"C">>)])>>)]),
     DictV([education |-> ListV(<<DictV([school |-> StrV(<<"C">>)])>>)]),
     DictV([headline |-> StrV(<<"H">>),
            experience |-> ExperienceList(ExperienceLimit + MaxOver),
            education |-> EducationList(EducationLimit + MaxOver)])}
    \cup {DictV([experience |-> ExperienceList(n)]) : n \in 1..(ExperienceLimit + MaxOver)}
    \cup {DictV([education |-> EducationList(n)]) : n \in 1..(EducationLimit + MaxOver)}

InvestmentInputs ==
    {Absent, None, EmptyDict,
     DictV([is_investor |-> BoolV(TRUE), investment_role |-> StrV(<<"R">>)]),
     DictV([is_investor |-> BoolV(FALSE)]),
     DictV([is_investor |-> None, investment_role |-> None, investment_focus |-> None,
            portfolio_companies |-> None, sectors_of_interest |-> None,
            investment_stage |-> None]),
     DictV([investment_role |-> StrV(<<>>), investment_focus |-> ListV(<<>>),
            portfolio_companies |-> ListV(<<>>)]),
     DictV([investment_focus |-> TokenList("f", PortfolioLimit + MaxOver),
            portfolio_companies |-> TokenList("p", PortfolioLimit + MaxOver),
            sectors_of_interest |-> TokenList("s", PortfolioLimit + MaxOver),
            investment_stage |-> TokenList("g", PortfolioLimit + MaxOver)])}
    \cup {DictV([portfolio_companies |-> TokenList("p", n)]) :
             n \in {1, PortfolioLimit, PortfolioLimit + MaxOver}}
    \cup {DictV([investment_focus |-> TokenList("f", PortfolioLimit + MaxOver)]),
          DictV([sectors_of_interest |-> TokenList("s", PortfolioLimit + MaxOver)]),
          DictV([investment_stage |-> TokenList("g", PortfolioLimit + MaxOver)])}

TextProfiles ==
    {Record([name |-> name, personal_info |-> personal, investment_profile |-> investment]) :
        name \in NameInputs, personal \in PersonalInputs, investment \in InvestmentInputs}

\* The records matches_filters is called on.
TopLevelLocation ==
    DictV([location |-> StrV(<<"H", "a">>),
           personal_info |-> DictV([location |-> StrV(<<"T", "a">>)]),
           investment_profile |-> DictV([location |-> StrV(<<"R", "i">>)])])
BothLocations ==
    DictV([personal_info |-> DictV([location |-> StrV(<<"T", "a">>), years |-> IntV(5)]),
           investment_profile |-> DictV([location |-> StrV(<<"R", "i">>), years |-> IntV(7)])])
FalsyFields ==
    DictV([name |-> StrV(<<>>),
           personal_info |-> DictV([location |-> None, headline |-> StrV(<<>>)]),
           investment_profile |->
              DictV([location |-> StrV(<<"R", "i">>), is_investor |-> BoolV(FALSE),
                     years |-> IntV(0), sectors_of_interest |-> ListV(<<>>)])])
NullInvestment ==
    DictV([name |-> StrV(<<"N">>),
           personal_info |-> DictV([location |-> StrV(<<"T", "a">>)]),
           investment_profile |-> None])

FilterProfiles ==
    {ProfileA, ProfileB, ProfileD, ProfileE,
     TopLevelLocation, BothLocations, FalsyFields, NullInvestment}

FilterKeys ==
    {<<"name">>, <<"location">>, <<"is_investor">>, <<"years">>, <<"sectors_of_interest">>,
     <<"headline">>, <<"personal_info", "location">>, <<"investment_profile", "location">>,
     <<"personal_info", "location", "city">>, <<"name", "first">>, <<"nothing", "at", "all">>}

FilterValues ==
    {None, BoolV(TRUE), BoolV(FALSE), IntV(5),
     StrV(<<"t", "a">>), StrV(<<"R", "I">>), StrV(<<"f", "a", "l", "s", "e">>),
     StrV(<<"0">>), StrV(<<>>),
     ListV(<<>>), ListV(<<StrV(<<"f", "i">>)>>),
     ListV(<<StrV(<<"r", "i">>), StrV(<<"5">>)>>),
     ListV(<<StrV(<<"F", "A", "L", "S", "E">>), StrV(<<"a">>)>>)}

\* The pairs that mappings of several pairs are made of.
PairPool ==
    {Pair(<<"name">>, StrV(<<"a">>)),
     Pair(<<"location">>, StrV(<<"t", "a">>)),
     Pair(<<"is_investor">>, BoolV(TRUE)),
     Pair(<<"sectors_of_interest">>, ListV(<<StrV(<<"f", "i">>)>>)),
     Pair(<<"years">>, None)}

FilterInputs ==
    {None}
    \cup {Filters(<<Pair(key, value)>>) : key \in FilterKeys, value \in FilterValues}
    \cup {Filters(items) : items \in
             {l \in SeqsUpTo(PairPool, MaxPairs) :
                 \A i, j \in 1..Len(l) : i # j => l[i].k # l[j].k}}

CoreIdle ==
    [fn |-> "none", pc |-> "idle", profile |-> None, filters |-> None,
     i |-> 0, profile_value |-> None, out |-> None]

\* get_text_representation(profile): the call and how it ends.
TextCall ==
    /\ core.pc = "idle"
    /\ \E profile \in TextProfiles :
          core' = [CoreIdle EXCEPT !.fn = "get_text_representation", !.pc = "ended",
                                   !.profile = profile,
                                   !.out = get_text_representation(profile)]
    /\ UNCHANGED <<profiles, faiss_index, openai_client, boot, builds, req, rr, patch, load, scrape>>

\* matches_filters(profile, filters), lines 197-200: no filters, or the loop
\* starts at the first pair.
FilterCall ==
    /\ core.pc = "idle"
    /\ \E profile \in FilterProfiles, filters \in FilterInputs :
          LET call == [CoreIdle EXCEPT !.fn = "matches_filters", !.profile = profile,
                                       !.filters = filters]
          IN IF ~Truthy(filters)
             THEN core' = [call EXCEPT !.pc = "ended", !.out = Returned(TRUE)]
             ELSE core' = [call EXCEPT !.pc = "lookup", !.i = 1]
    /\ UNCHANGED <<profiles, faiss_index, openai_client, boot, builds, req, rr, patch, load, scrape>>

\* Lines 202-221: profile_value of the pair at hand, or the exception.
FilterLookup ==
    /\ core.pc = "lookup"
    /\ LET profile_value == ProfileValue(core.profile, core.filters.items[core.i].k)
       IN IF profile_value.raised
          THEN core' = [core EXCEPT !.pc = "ended", !.out = profile_value]
          ELSE core' = [core EXCEPT !.pc = "compare", !.profile_value = profile_value.value]
    /\ UNCHANGED <<profiles, faiss_index, openai_client, boot, builds, req, rr, patch, load, scrape>>

\* The loop that returns True as soon as a pair passes.
FilterCompareFirstOnly ==
    /\ core.pc = "compare"
    /\ IF ~PairMatches(core.profile_value, core.filters.items[core.i].v)
       THEN core' = [core EXCEPT !.pc = "ended", !.out = Returned(FALSE)]
       ELSE core' = [core EXCEPT !.pc = "ended", !.out = Returned(TRUE)]
    /\ UNCHANGED <<profiles, faiss_index, openai_client, boot, builds, req, rr, patch, load, scrape>>

\* Lines 224-259: the pair at hand does not pass and the call returns False,
\* or it passes and the loop goes on, to return True after the last pair.
FilterCompare ==
    /\ core.pc = "compare"
    /\ IF ~PairMatches(core.profile_value, core.filters.items[core.i].v)
       THEN core' = [core EXCEPT !.pc = "ended", !.out = Returned(FALSE)]
       ELSE IF core.i = Len(core.filters.items)
       THEN core' = [core EXCEPT !.pc = "ended", !.out = Returned(TRUE)]
       ELSE core' = [core EXCEPT !.pc = "lookup", !.i = core.i + 1]
    /\ UNCHANGED <<profiles, faiss_index, openai_client, boot, builds, req, rr, patch, load, scrape>>

CoreReturn ==
    /\ core.pc = "ended"
    /\ core' = CoreIdle
    /\ UNCHANGED <<profiles, faiss_index, openai_client, boot, builds, req, rr, patch, load, scrape>>

\* ------------------------------------------------------------- patch_profiles_with_avatars.py
\* A row of estban_members.csv: three strings, empty when the cell is empty.
Member(name, linkedin, avatar_url) ==
    [name |-> name, linkedin |-> linkedin, avatar_url |-> avatar_url]

\* s.rstrip('/')
RECURSIVE RStripSlash(_)
RStripSlash(s) ==
    IF s # <<>> /\ s[Len(s)] = "/" THEN RStripSlash(SubSeq(s, 1, Len(s) - 1)) ELSE s

\* Lines 34-36 and 41-45: the member data of a row; an empty avatar is None.
MemberData(row) ==
    [name |-> Strip(row.name),
     linkedin |-> Strip(row.linkedin),
     avatar_url |-> IF Strip(row.avatar_url) = <<>> THEN None ELSE StrV(Strip(row.avatar_url))]

\* Lines 40 and 82: name.lower().strip()
NormalizedName(name) == Strip(Lower(name))

\* Line 49: linkedin.rstrip('/').lower()
NormalizedLinkedin(linkedin) == Lower(RStripSlash(linkedin))

\* The data of the last row whose key is `key`, keys[i] being the key of
\* rows[i]: a later row overwrites an earlier one.
LastKeyed(rows, keys, key) ==
    LET last == CHOOSE i \in 1..Len(rows) :
                   /\ keys[i] = key
                   /\ \A j \in (i + 1)..Len(rows) : keys[j] # key
    IN MemberData(rows[last])

\* Lines 27-65: the two lookup dictionaries.
load_members_csv(rows) ==
    LET named_rows == SelectSeq(rows, LAMBDA row : MemberData(row).name # <<>>)
        linked_rows == SelectSeq(rows, LAMBDA row : MemberData(row).linkedin # <<>>)
        names == [i \in 1..Len(named_rows) |-> NormalizedName(MemberData(named_rows[i]).name)]
        linkedins == [i \in 1..Len(linked_rows) |->
                         NormalizedLinkedin(MemberData(linked_rows[i]).linkedin)]
    IN [by_name |-> [key \in Range(names) |-> LastKeyed(named_rows, names, key)],
        by_linkedin |-> [key \in Range(linkedins) |->
                            LastKeyed(linked_rows, linkedins, key)]]

\* Lines 79-86: the member whose normalized name is the profile's.
find_member_for_profile(profile, members_lookup) ==
    LET name == Strip(GetOr(profile, "name", StrV(<<>>)).s)
    IN IF name = <<>> THEN None
       ELSE IF NormalizedName(name) \in DOMAIN members_lookup.by_name
       THEN members_lookup.by_name[NormalizedName(name)]
       ELSE None

\* profile['avatar_url'] = value
SetItem(d, key, value) ==
    DictV([k \in DOMAIN d.d \cup {key} |-> IF k = key THEN value ELSE d.d[k]])

\* Lines 119-125: one round of the loop; the profile after it, and whether
\* it was updated.
PatchedProfile(profile, members_lookup) ==
    LET member_data == find_member_for_profile(profile, members_lookup)
    IN IF member_data = None THEN [profile |-> profile, updated |-> FALSE]
       ELSE IF ~Truthy(member_data.avatar_url) THEN [profile |-> profile, updated |-> FALSE]
       ELSE IF Get(profile, "avatar_url") = member_data.avatar_url
       THEN [profile |-> profile, updated |-> FALSE]
       ELSE [profile |-> SetItem(profile, "avatar_url", member_data.avatar_url),
             updated |-> TRUE]

\* The CSV rows and the profile files of the runs.
MemberRows ==
    {Member(<<"A", "n">>, <<"I", "N", "/">>, <<"U">>),
     Member(<<" ", "A", "N">>, <<>>, <<"V">>),
     Member(<<"B", "o">>, <<"h", "i">>, <<>>),
     Member(<<>>, <<"T", "a">>, <<"W">>),
     Member(<<"C", "a">>, <<"T", "a", "/">>, <<"X">>)}

MemberTables == SeqsUpTo(MemberRows, MaxMembers)

Patchable(name, linkedin_url, avatar_url) ==
    Record([name |-> name, linkedin_url |-> linkedin_url, avatar_url |-> avatar_url])

PatchProfiles ==
    {Patchable(StrV(<<"a", "n", " ">>), StrV(<<"i", "n">>), Absent),
     Patchable(StrV(<<"D", "i">>), StrV(<<"i", "n", "/">>), Absent),
     Patchable(StrV(<<"B", "o">>), Absent, StrV(<<"U">>)),
     Patchable(Absent, StrV(<<"T", "A">>), Absent),
     Patchable(StrV(<<"A", "n">>), Absent, StrV(<<"U">>)),
     Patchable(StrV(<<"D", "i">>), Absent, None)}

ProfileFiles == SeqsUpTo(PatchProfiles, MaxPatched)

PatchIdle == [pc |-> "idle"]

\* main, lines 180-200 with lines 101-116: the CSV and the JSON file are
\* read and the loop starts.
PatchStart ==
    /\ patch.pc = "idle"
    /\ \E rows \in MemberTables, file \in ProfileFiles, dry_run \in BOOLEAN :
          patch' = [pc |-> "loop", rows |-> rows, file |-> file, dry_run |-> dry_run,
                    profiles |-> file, i |-> 1, updated_count |-> 0]
    /\ UNCHANGED <<profiles, faiss_index, openai_client, boot, builds, req, rr, core, load, scrape>>

\* Lines 118-132: the next profile of the loop.
PatchProfile ==
    /\ patch.pc = "loop"
    /\ patch.i <= Len(patch.profiles)
    /\ LET patched == PatchedProfile(patch.profiles[patch.i], load_members_csv(patch.rows))
       IN patch' = [patch EXCEPT !.profiles[patch.i] = patched.profile,
                                 !.i = patch.i + 1,
                                 !.updated_count =
                                     IF patched.updated THEN @ + 1 ELSE @]
    /\ UNCHANGED <<profiles, faiss_index, openai_client, boot, builds, req, rr, core, load, scrape>>

\* Lines 134-142: the file is written when something was updated and the
\* run is not a dry run.
PatchSave ==
    /\ patch.pc = "loop"
    /\ patch.i > Len(patch.profiles)
    /\ patch' = [patch EXCEPT !.pc = "done",
                              !.file = IF ~patch.dry_run /\ patch.updated_count > 0
                                       THEN patch.profiles ELSE @]
    /\ UNCHANGED <<profiles, faiss_index, openai_client, boot, builds, req, rr, core, load, scrape>>

PatchExit ==
    /\ patch.pc = "done"
    /\ patch' = PatchIdle
    /\ UNCHANGED <<profiles, faiss_index, openai_client, boot, builds, req, rr, core, load, scrape>>

\* ------------------------------------------------------------- startup_event: the candidate files
\* What a path holds: nothing, a file load_profiles_from_json raises on (it
\* is not JSON, or its JSON is not a list), or a JSON list of records.
Missing == [kind |-> "missing"]
Unloadable(why) == [kind |-> "unloadable", why |-> why]
ListFile(records) == [kind |-> "list", profiles |-> records]

DefaultFile == "angel_profiles.json"
LlmFile == "angel_profiles_llm.json"
CustomFile == "custom.json"
FileNames == {CustomFile, DefaultFile, LlmFile}

\* Line 428: PROFILES_JSON, or the default name when it is not set.
ConfiguredFiles == {CustomFile, DefaultFile}

\* Lines 431-435.
possible_files(json_file) == <<json_file, DefaultFile, LlmFile>>

\* The lists the files hold: a different one in each file, the empty list,
\* or a list with a record whose text cannot be made.
FileRecords ==
    [f \in FileNames |->
        CASE f = CustomFile -> <<ProfileA>>
          [] f = DefaultFile -> <<ProfileB, ProfileC>>
          [] f = LlmFile -> <<ProfileD>>]

FileStates(f) ==
    {Missing, Unloadable("invalid JSON"), Unloadable("not a list"),
     ListFile(FileRecords[f]), ListFile(<<>>), ListFile(<<ProfileE>>)}

FileSystems == {fs \in [FileNames -> UNION {FileStates(f) : f \in FileNames}] :
                   \A f \in FileNames : fs[f] \in FileStates(f)}

\* Line 439: os.path.exists(file_path)
Exists(fs, file_path) == fs[file_path] # Missing

\* Lines 368-377: the list, or the exception.
load_profiles_from_json(fs, json_path) ==
    IF fs[json_path] = Missing THEN Raised("FileNotFoundError")
    ELSE IF fs[json_path].kind = "unloadable" THEN Raised("ValueError")
    ELSE Returned(fs[json_path].profiles)

LoadIdle == [pc |-> "idle"]

\* Lines 428-437: the candidate files are listed and the loop starts.
LoadBegin ==
    /\ boot.pc = "client"
    /\ load.pc = "idle"
    /\ \E json_file \in ConfiguredFiles, fs \in FileSystems :
          load' = [pc |-> "loop", fs |-> fs, possible_files |-> possible_files(json_file),
                   i |-> 1, loaded |-> FALSE, tried |-> <<>>]
    /\ boot' = Booting("loading")
    /\ UNCHANGED <<profiles, faiss_index, openai_client, builds, req, rr, core, patch, scrape>>

\* Line 439: the file does not exist; the next one is looked at.
LoadMissing ==
    /\ load.pc = "loop"
    /\ load.i <= Len(load.possible_files)
    /\ ~Exists(load.fs, load.possible_files[load.i])
    /\ load' = [load EXCEPT !.i = @ + 1]
    /\ UNCHANGED <<profiles, faiss_index, openai_client, boot, builds, req, rr, core, patch, scrape>>

\* The failure of a file that ends the loop.
LoadFailsStops ==
    /\ load.pc = "loop"
    /\ load.i <= Len(load.possible_files)
    /\ Exists(load.fs, load.possible_files[load.i])
    /\ load_profiles_from_json(load.fs, load.possible_files[load.i]).raised
    /\ load' = [load EXCEPT !.i = Len(load.possible_files) + 1,
                            !.tried = Append(@, load.possible_files[load.i])]
    /\ UNCHANGED <<profiles, faiss_index, openai_client, boot, builds, req, rr, core, patch, scrape>>

\* Lines 440-447: load_profiles_from_json raises; the loop continues.
LoadFails ==
    /\ load.pc = "loop"
    /\ load.i <= Len(load.possible_files)
    /\ Exists(load.fs, load.possible_files[load.i])
    /\ load_profiles_from_json(load.fs, load.possible_files[load.i]).raised
    /\ load' = [load EXCEPT !.i = @ + 1, !.tried = Append(@, load.possible_files[load.i])]
    /\ UNCHANGED <<profiles, faiss_index, openai_client, boot, builds, req, rr, core, patch, scrape>>

\* Lines 440-444: the file loads; profiles is set and the loop is left.
LoadSucceeds ==
    /\ load.pc = "loop"
    /\ load.i <= Len(load.possible_files)
    /\ Exists(load.fs, load.possible_files[load.i])
    /\ ~load_profiles_from_json(load.fs, load.possible_files[load.i]).raised
    /\ profiles' = load_profiles_from_json(load.fs, load.possible_files[load.i]).value
    /\ load' = [load EXCEPT !.pc = "done", !.loaded = TRUE,
                            !.tried = Append(@, load.possible_files[load.i])]
    /\ boot' = Booting("loaded")
    /\ UNCHANGED <<faiss_index, openai_client, builds, req, rr, core, patch, scrape>>

\* Lines 449-453: no file loaded; the store is empty and startup returns.
LoadNothing ==
    /\ load.pc = "loop"
    /\ load.i > Len(load.possible_files)
    /\ profiles' = <<>>
    /\ load' = [load EXCEPT !.pc = "done"]
    /\ boot' = Booting("done")
    /\ UNCHANGED <<faiss_index, openai_client, builds, req, rr, core, patch, scrape>>

\* ------------------------------------------------------------- scraper.py: EstBANScraper.scrape_all
\* A member scraped from page p at position k of the page.
ScrapedMember(p, k) == <<p, k>>

\* extract_members_from_page, lines 183-213, over a directory given as the
\* number of named members of each page: the members of page p, none for a
\* page past the last one.
PageMembers(directory, p) ==
    IF p <= Len(directory) THEN [k \in 1..directory[p] |-> ScrapedMember(p, k)] ELSE <<>>

\* Line 34 and lines 105-115: max_pages is None unless the first page names
\* max_num_pages; None and 0 are both falsy and held as 0.
Unknown == 0

\* The answer with the page count ignored.
has_more_pages_unbounded(max_pages, page_num, next_links, member_items) ==
    IF next_links THEN TRUE
    ELSE member_items # 0

\* Lines 215-236.
has_more_pages(max_pages, page_num, next_links, member_items) ==
    IF max_pages # Unknown THEN page_num < max_pages
    ELSE IF next_links THEN TRUE
    ELSE IF member_items = 0 THEN FALSE
    ELSE TRUE

\* The directories scraped: at most MaxPages pages of at most MaxPerPage
\* named members each, an empty page among them or not; and the page
\* counts the first page can name.
Directories == SeqsUpTo(0..MaxPerPage, MaxPages)
PageCounts == {Unknown} \cup (1..(MaxPages + 1))

ScrapeIdle == [pc |-> "idle"]

\* Lines 240-246: a scraper is made and the first page is asked for.
ScrapeStart ==
    /\ scrape.pc = "idle"
    /\ \E directory \in Directories, max_num_pages \in PageCounts :
          scrape' = [pc |-> "initial", directory |-> directory, max_num_pages |-> max_num_pages,
                     max_pages |-> Unknown, page_num |-> 1, members |-> <<>>,
                     requested |-> <<>>, failed |-> FALSE, out |-> <<>>]
    /\ UNCHANGED <<profiles, faiss_index, openai_client, boot, builds, req, rr, core, patch, load>>

\* Lines 246-249: get_page returns None; scrape_all returns [].
ScrapeInitialFails ==
    /\ scrape.pc = "initial"
    /\ scrape' = [scrape EXCEPT !.pc = "returned", !.failed = TRUE, !.out = <<>>]
    /\ UNCHANGED <<profiles, faiss_index, openai_client, boot, builds, req, rr, core, patch, load>>

\* Lines 252-258: the form data (and max_pages), the members of page 1.
ScrapeInitial ==
    /\ scrape.pc = "initial"
    /\ scrape' = [scrape EXCEPT !.pc = "loop",
                                !.max_pages = scrape.max_num_pages,
                                !.members = @ \o PageMembers(scrape.directory, 1),
                                !.page_num = 2]
    /\ UNCHANGED <<profiles, faiss_index, openai_client, boot, builds, req, rr, core, patch, load>>

\* Lines 262-266: get_page_via_post returns None (the request failed or
\* timed out); the loop is left.
ScrapeFetchFails ==
    /\ scrape.pc = "loop"
    /\ scrape' = [scrape EXCEPT !.pc = "returned", !.failed = TRUE,
                                !.requested = Append(@, scrape.page_num),
                                !.out = scrape.members]
    /\ UNCHANGED <<profiles, faiss_index, openai_client, boot, builds, req, rr, core, patch, load>>

\* Lines 262-285: the page is fetched; no member ends the loop, and so does
\* has_more_pages when it is False; otherwise the next page is due.
ScrapePage ==
    /\ scrape.pc = "loop"
    /\ \E next_links \in BOOLEAN, unnamed \in 0..1 :
          LET page_members == PageMembers(scrape.directory, scrape.page_num)
              asked == [scrape EXCEPT !.requested = Append(@, scrape.page_num)]
              extended == [asked EXCEPT !.members = @ \o page_members]
          IN IF Len(page_members) = 0
             THEN scrape' = [asked EXCEPT !.pc = "returned", !.out = asked.members]
             ELSE IF ~has_more_pages(scrape.max_pages, scrape.page_num, next_links,
                                     Len(page_members) + unnamed)
             THEN scrape' = [extended EXCEPT !.pc = "returned", !.out = extended.members]
             ELSE scrape' = [extended EXCEPT !.page_num = @ + 1]
    /\ UNCHANGED <<profiles, faiss_index, openai_client, boot, builds, req, rr, core, patch, load>>

\* The members are returned; another scraper can run.
ScrapeReturned ==
    /\ scrape.pc = "returned"
    /\ scrape' = ScrapeIdle
    /\ UNCHANGED <<profiles, faiss_index, openai_client, boot, builds, req, rr, core, patch, load>>


\* ------------------------------------------------------------- specifications
Init ==
    /\ profiles = <<>>
    /\ faiss_index = None
    /\ openai_client = FALSE
    /\ boot = Booting("start")
    /\ builds = 0
    /\ req = NoRequest
    /\ rr = RerankIdle
    /\ core = CoreIdle
    /\ patch = PatchIdle
    /\ load = LoadIdle
    /\ scrape = ScrapeIdle

\* startup_event and the calls of search; a body the request model rejects
\* never reaches search (SearchInvalid, under ServeSpec).
Next ==
    \/ StartupClient
    \/ StartupLoad
    \/ StartupNoFile
    \/ StartupNoClient
    \/ IndexNothing
    \/ IndexTextFails
    \/ IndexEmbedFails
    \/ IndexCreate
    \/ IndexFill
    \/ SearchRefused
    \/ SearchAccepted
    \/ SearchEmbedFails
    \/ SearchRetrieve
    \/ SearchRerank
    \/ SearchDone

Spec == Init /\ [][Next]_vars

\* The server after startup_event, for the stores of at most
\* MaxServedProfiles records whose texts can be made: the client handle set
\* or not, the index built iff the handle is set and the store is not empty.
ServedStores ==
    {store \in Stores : Len(store) <= MaxServedProfiles /\ ~ProfileTexts(store).raised}

BuiltIndex(store) ==
    LET embeddings == create_embeddings(ProfileTexts(store).value)
    IN IndexAdd(IndexFlatL2(Len(embeddings[1])), embeddings)

ServeInit ==
    /\ \E store \in ServedStores, api_key \in BOOLEAN :
          /\ profiles = store
          /\ openai_client = api_key
          /\ faiss_index = IF api_key /\ store # <<>> THEN BuiltIndex(store) ELSE None
          /\ builds = IF api_key /\ store # <<>> THEN 1 ELSE 0
    /\ boot = Booting("done")
    /\ req = NoRequest
    /\ rr = RerankIdle
    /\ core = CoreIdle
    /\ patch = PatchIdle
    /\ load = LoadIdle
    /\ scrape = ScrapeIdle

ServeNext ==
    \/ SearchInvalid
    \/ SearchRefused
    \/ SearchAccepted
    \/ SearchGetInvalid
    \/ SearchGetRefused
    \/ SearchGetAccepted
    \/ SearchEmbedFails
    \/ SearchRetrieve
    \/ SearchRerank
    \/ SearchDone
    \/ GetProfile
    \/ ListProfiles
    \/ Health
    \/ Root

ServeSpec == ServeInit /\ [][ServeNext]_vars

\* Lines 299-307: chat.completions.create is a blocking call of the client
\* library; it returns the answer or raises, the library's request timeout
\* being one of the exceptions it raises (OracleRaise).  The handler goes on
\* when the call ends.
ServeLiveSpec == ServeSpec /\ WF_vars(SearchRerank)

\* Direct calls of rerank_results, with the server state left as constructed.
RerankNext ==
    \/ RerankNoOracle
    \/ RerankAsk
    \/ RerankAnswer
    \/ RerankReturn

RerankSpec == Init /\ [][RerankNext]_vars

\* Direct calls of get_text_representation and matches_filters, likewise.
CoreNext ==
    \/ TextCall
    \/ FilterCall
    \/ FilterLookup
    \/ FilterCompare
    \/ CoreReturn

CoreSpec == Init /\ [][CoreNext]_vars

\* startup_event with the loop over the candidate files spelled out.
LoadNext ==
    \/ StartupClient
    \/ LoadBegin
    \/ LoadMissing
    \/ LoadFails
    \/ LoadSucceeds
    \/ LoadNothing
    \/ StartupNoClient
    \/ IndexNothing
    \/ IndexTextFails
    \/ IndexEmbedFails
    \/ IndexCreate
    \/ IndexFill

LoadSpec == Init /\ [][LoadNext]_vars

\* Runs of EstBANScraper.scrape_all.
ScrapeNext ==
    \/ ScrapeStart
    \/ ScrapeInitialFails
    \/ ScrapeInitial
    \/ ScrapeFetchFails
    \/ ScrapePage
    \/ ScrapeReturned

ScrapeSpec == Init /\ [][ScrapeNext]_vars

\* The script runs on: every request of lines 39 and 149 carries timeout=10,
\* so a fetch ends, with a page or with None, and the statement after it is
\* executed.
ScrapeLiveSpec == ScrapeSpec /\ WF_vars(ScrapeNext)

\* Runs of patch_profiles_with_avatars.py.
PatchNext ==
    \/ PatchStart
    \/ PatchProfile
    \/ PatchSave
    \/ PatchExit

PatchSpec == Init /\ [][PatchNext]_vars

\* ------------------------------------------------------------- properties of rerank_results
\* An entry of an index list names a candidate of an n-element list when it
\* is an integer within [0, n); the JSON values true and false are the
\* Python ints 1 and 0.
NamesCandidate(e, n) ==
    IF e.t = "int" THEN 0 <= e.n /\ e.n < n
    ELSE IF e.t = "bool" THEN (IF e.b THEN 1 ELSE 0) < n
    ELSE FALSE

NamedPosition(e) == IF e.t = "bool" THEN (IF e.b THEN 1 ELSE 0) ELSE e.n

\* The lists a JSON answer holds: itself, or the values of its items.
ListsIn(v) ==
    IF v.t = "list" THEN {v.l}
    ELSE IF v.t = "obj"
    THEN {v.items[i].v.l : i \in {j \in 1..Len(v.items) : v.items[j].v.t = "list"}}
    ELSE {}

YieldsNoIndex(v, n) ==
    \A l \in ListsIn(v) : \A i \in 1..Len(l) : ~NamesCandidate(l[i], n)

\* The first m elements of s, or all of s when it is shorter.
IsPrefixCut(out, s, m) ==
    /\ Len(out) = (IF m <= Len(s) THEN m ELSE Len(s))
    /\ \A i \in 1..Len(out) : out[i] = s[i]

FailOpenCase(call) ==
    IF ~call.client THEN TRUE
    ELSE IF call.oracle.o \in {"raise", "nocontent", "text", "uncalled"} THEN TRUE
    ELSE YieldsNoIndex(call.oracle.v, Len(call.results))

\* C1: rerank_results fails open.  Whenever there is no client, the oracle
\* call raises, the answer is not parseable, or the answer holds no valid
\* index, the call returns candidates[:max_results] in the input order.
RerankFailsOpen ==
    (rr.pc = "returned" /\ FailOpenCase(rr))
        => IsPrefixCut(rr.out, rr.results, rr.max_results)

RerankFailsOpenWitness ==
    /\ rr.pc = "returned"
    /\ rr.client
    /\ rr.oracle = OracleNotJson
    /\ rr.results = <<2, 1, 0>>
    /\ rr.max_results = 2
    /\ rr.out = <<2, 1>>

\* The index list an answer gives: the answer itself when it is a list, or
\* the non-empty list under its "ranking" key.
GivesRanking(oracle) ==
    IF oracle.o # "json" THEN FALSE
    ELSE IF oracle.v.t = "list" THEN TRUE
    ELSE IF oracle.v.t = "obj"
    THEN ObjGet(oracle.v, "ranking").t = "list" /\ ObjGet(oracle.v, "ranking").l # <<>>
    ELSE FALSE

RankingOf(oracle) ==
    IF oracle.v.t = "list" THEN oracle.v.l ELSE ObjGet(oracle.v, "ranking").l

RECURSIVE NamedInOrder(_, _)
\* The positions named by the valid entries of a ranking, in the order given.
NamedInOrder(ranking, n) ==
    IF ranking = <<>> THEN <<>>
    ELSE IF NamesCandidate(Head(ranking), n)
    THEN <<NamedPosition(Head(ranking))>> \o NamedInOrder(Tail(ranking), n)
    ELSE NamedInOrder(Tail(ranking), n)

RECURSIVE UnnamedInOrder(_, _, _)
\* The positions from `from` on that no valid entry names, ascending.
UnnamedInOrder(named, from, n) ==
    IF from >= n THEN <<>>
    ELSE IF from \in named THEN UnnamedInOrder(named, from + 1, n)
    ELSE <<from>> \o UnnamedInOrder(named, from + 1, n)

PartialOrder(call) ==
    LET n == Len(call.results)
        named == NamedInOrder(RankingOf(call.oracle), n)
        positions == named \o UnnamedInOrder(Range(named), 0, n)
    IN [i \in 1..Len(positions) |-> call.results[positions[i] + 1]]

\* C2: partial ranking.  The output is the candidates named by the valid
\* indices in the oracle's order, then every candidate no valid index names
\* in input order, cut to max_results.
RerankPartialRanking ==
    (rr.pc = "returned" /\ rr.client /\ GivesRanking(rr.oracle))
        => IsPrefixCut(rr.out, PartialOrder(rr), rr.max_results)

RerankPartialRankingWitness ==
    /\ rr.pc = "returned"
    /\ rr.client
    /\ rr.oracle = OracleJson(ObjV(<<[k |-> "ranking", v |-> ListV(<<IntV(2), IntV(0)>>)]>>))
    /\ rr.results = <<3, 2, 1, 0>>
    /\ rr.max_results = 4
    /\ rr.out = <<1, 3, 2, 0>>

RECURSIVE FirstOccurrences(_, _)
\* A list of positions without the later occurrences of a position.
FirstOccurrences(positions, seen) ==
    IF positions = <<>> THEN <<>>
    ELSE IF Head(positions) \in seen THEN FirstOccurrences(Tail(positions), seen)
    ELSE <<Head(positions)>> \o FirstOccurrences(Tail(positions), seen \cup {Head(positions)})

DistinctOrder(call) ==
    LET n == Len(call.results)
        named == FirstOccurrences(NamedInOrder(RankingOf(call.oracle), n), {})
        positions == named \o UnnamedInOrder(Range(named), 0, n)
    IN [i \in 1..Len(positions) |-> call.results[positions[i] + 1]]

\* C3: duplicate and invalid indices are ignored.  No candidate appears
\* twice in the output of rerank_results (the candidates of a call are
\* distinct), whatever index list the oracle gives, and each ranked
\* candidate stands where the first valid occurrence of its index puts it.
RerankNoDuplicates ==
    rr.pc = "returned" =>
        /\ \A i, j \in 1..Len(rr.out) : i # j => rr.out[i] # rr.out[j]
        /\ (rr.client /\ GivesRanking(rr.oracle))
              => IsPrefixCut(rr.out, DistinctOrder(rr), rr.max_results)

\* C4: nothing is dropped but by truncation.  The output has
\* min(max_results, len(candidates)) elements, and holds every candidate
\* when max_results >= len(candidates).
RerankKeepsAll ==
    rr.pc = "returned"
        => /\ Len(rr.out) = Min(rr.max_results, Len(rr.results))
           /\ rr.max_results >= Len(rr.results) => Range(rr.results) \subseteq Range(rr.out)

\* ------------------------------------------------------------- properties of search
Served == req.pc = "responded" /\ req.status = 200

\* The record passes the filters: matches_filters returns True.
Passes(profile, filters) == matches_filters(profile, filters) = Returned(TRUE)

\* The distance of row r (0-based) of the index to the request's query.
QueryDistance(r) == L2(faiss_index.rows[r + 1], EmbedText(req.query))

\* C5: every returned record is a record of the store that was among the k
\* nearest rows and passes the filters, whatever the oracle answers; the
\* filtering keeps exactly the matching candidates, in ascending distance.
SearchResultsSound ==
    Served =>
        /\ Len(req.indices) = req.k
        /\ \A r \in 0..(Len(profiles) - 1) :
              r \notin Range(req.indices)
                 => \A i \in 1..Len(req.indices) : QueryDistance(req.indices[i]) <= QueryDistance(r)
        /\ \A i \in 1..Len(req.results) :
              /\ req.results[i] \in Range(req.indices)
              /\ req.results[i] \in 0..(Len(profiles) - 1)
              /\ Passes(profiles[req.results[i] + 1], req.filters)
        /\ Range(req.filtered) =
              {r \in Range(req.indices) : Passes(profiles[r + 1], req.filters)}
        /\ \A i, j \in 1..Len(req.filtered) :
              i < j => /\ req.filtered[i] # req.filtered[j]
                       /\ QueryDistance(req.filtered[i]) <= QueryDistance(req.filtered[j])

SearchResultsSoundWitness ==
    /\ Served
    /\ profiles = <<ProfileA, ProfileB, ProfileC>>
    /\ req.filters = Filters(<<Pair(<<"is_investor">>, BoolV(TRUE))>>)
    /\ req.indices = <<0, 2, 1>>
    /\ req.oracle = OracleJson(ReverseRanking(2))
    /\ req.results = <<2, 0>>

RECURSIVE KeepMatching(_, _)
\* The rows of a list whose records pass the filters, in the list's order.
KeepMatching(rows, filters) ==
    IF rows = <<>> THEN <<>>
    ELSE IF Passes(profiles[Head(rows) + 1], filters)
    THEN <<Head(rows)>> \o KeepMatching(Tail(rows), filters)
    ELSE KeepMatching(Tail(rows), filters)

\* The oracle ranks the candidates as they came, or the re-ranking fails open.
IdentityOrFailOpen ==
    IF req.oracle.o \in {"raise", "nocontent", "text", "uncalled"} THEN TRUE
    ELSE IF req.oracle.v.t = "list" THEN req.oracle.v = IdentityRanking(Len(req.filtered))
    ELSE IF req.oracle.v.t = "obj"
    THEN ObjGet(req.oracle.v, "ranking") = IdentityRanking(Len(req.filtered))
    ELSE TRUE

\* C6: end to end with an identity or failing-open re-ranking, the results
\* are the vector-search rows in distance order without the records that do
\* not pass the filters, cut to max_results, and total_found is their count.
SearchEndToEnd ==
    (Served /\ IdentityOrFailOpen)
        => /\ IsPrefixCut(req.results, KeepMatching(req.indices, req.filters), req.max_results)
           /\ req.total_found = Len(req.results)

SearchEndToEndWitness ==
    /\ Served
    /\ profiles = <<ProfileA, ProfileB, ProfileC>>
    /\ req.query = <<"F", "i", " ", "T", "a">>
    /\ req.filters = Filters(<<Pair(<<"is_investor">>, BoolV(TRUE))>>)
    /\ req.max_results = 2
    /\ req.indices = <<0, 2, 1>>
    /\ req.oracle = OracleJson(IdentityRanking(2))
    /\ req.results = <<0, 2>>
    /\ req.total_found = 2

\* The re-ranking call failed: it raised (a timeout included), or it gave
\* no content, text that is not JSON, or a JSON scalar.
RerankFailed ==
    IF req.oracle.o \in {"raise", "nocontent", "text"} THEN TRUE
    ELSE IF req.oracle.o = "json" THEN req.oracle.v.t \notin {"list", "obj"}
    ELSE FALSE

\* C7: failure propagation.  A failed query embedding ends the request with
\* an error response and no results; a failed re-ranking after a successful
\* embedding still gives a success with the filtered candidates in distance
\* order cut to max_results; a request that reached the oracle never ends in
\* an error response.
SearchFailurePropagation ==
    req.pc = "responded" =>
        /\ req.embed = "failed" => (req.status = 500 /\ req.results = <<>>)
        /\ req.oracle_calls = 1 => req.status = 200
        /\ RerankFailed =>
              /\ req.status = 200
              /\ IsPrefixCut(req.results, req.filtered, req.max_results)
              /\ req.total_found = Len(req.results)

SearchFailurePropagationWitness ==
    /\ Served
    /\ req.embed = "ok"
    /\ req.oracle = OracleRaise
    /\ Len(req.filtered) = 3
    /\ req.max_results = 2
    /\ req.results = SubSeq(req.filtered, 1, 2)

\* The store is empty, or the index is unbuilt or holds no vector.
StoreOrIndexUnready ==
    IF profiles = <<>> THEN TRUE
    ELSE IF faiss_index = None THEN TRUE
    ELSE ntotal(faiss_index) = 0

\* C8: while the store is empty or the index is unbuilt or empty, no request
\* is past the refusal, and a request answered in such a state got 503 with
\* no embedding, index or oracle call; after a startup without credentials
\* the index stays unbuilt.
SearchUnavailable ==
    /\ StoreOrIndexUnready =>
          /\ req.pc \in {"idle", "responded"}
          /\ req.pc = "responded" =>
                /\ req.status = 503
                /\ req.embed_calls = 0
                /\ req.index_reads = 0
                /\ req.oracle_calls = 0
    /\ (boot.pc = "done" /\ ~openai_client) => faiss_index = None

SearchUnavailableWitness ==
    /\ boot.pc = "done"
    /\ ~openai_client
    /\ Len(profiles) = MaxProfiles
    /\ faiss_index = None
    /\ req.pc = "responded"
    /\ req.status = 503
    /\ req.embed_calls = 0

\* C9: the build completes before any query is served.  The index is
\* assigned at most once; a request that is past the refusal, has read the
\* index or was answered with results finds startup finished and the index
\* holding every record's vector; a request answered before that was refused.
BuildBeforeServe ==
    /\ builds <= 1
    /\ (req.pc \in {"embedding", "reranking"} \/ req.index_reads = 1 \/ Served) =>
          /\ boot.pc = "done"
          /\ builds = 1
          /\ faiss_index # None
          /\ ntotal(faiss_index) = Len(profiles)
    /\ (req.pc = "responded" /\ boot.pc # "done") => req.status = 503

BuildBeforeServeWitness ==
    /\ boot.pc = "done"
    /\ builds = 1
    /\ Served
    /\ req.index_reads = 1
    /\ Len(req.results) = MaxResults

\* C10: store and index are aligned.  Once the index is built it has one row
\* per record of the store, and row i is the embedding of the text of
\* record i, so a row returned by a query refers to the record it was
\* computed from.
StoreIndexAligned ==
    (boot.pc = "done" /\ faiss_index # None) =>
        /\ ntotal(faiss_index) = Len(profiles)
        /\ \A i \in 1..Len(profiles) :
              /\ ~get_text_representation(profiles[i]).raised
              /\ faiss_index.rows[i] = EmbedText(get_text_representation(profiles[i]).value)
        /\ \A i \in 1..Len(req.candidates) :
              req.candidates[i] \in 0..(Len(profiles) - 1)

StoreIndexAlignedWitness ==
    /\ boot.pc = "done"
    /\ faiss_index # None
    /\ profiles = <<ProfileA, ProfileB, ProfileC>>
    /\ Served
    /\ req.candidates = <<0, 2, 1>>


\* ------------------------------------------------------------- retrieval width and result size
\* C11: retrieval width.  Once a request has read the index, the number of
\* neighbours it asked for is min(max_results * 3, vectors in the index),
\* which is never more than the index holds; it got that many rows, and the
\* candidates are exactly the returned rows within [0, len(profiles)), in
\* the order returned.
RetrievalWidthClamped ==
    req.index_reads = 1 =>
        LET total == Len(faiss_index.rows)
            wanted == req.max_results * 3
        IN /\ req.k = (IF wanted <= total THEN wanted ELSE total)
           /\ req.k <= total
           /\ Len(req.indices) = req.k
           /\ \A i \in 1..Len(req.candidates) :
                 0 <= req.candidates[i] /\ req.candidates[i] < Len(profiles)
           /\ req.candidates =
                 SelectSeq(req.indices, LAMBDA idx : idx \in 0..(Len(profiles) - 1))

\* A request for two results over an index of four vectors: six neighbours
\* wanted, four asked for.
RetrievalWidthClampedWitness ==
    /\ req.index_reads = 1
    /\ req.max_results = 2
    /\ Len(faiss_index.rows) = 4
    /\ req.k = 4
    /\ Len(req.candidates) = 4


\* One list holds the elements of the other, each as often.
SameElements(a, b) ==
    /\ Len(a) = Len(b)
    /\ \A x \in Range(a) \cup Range(b) :
          Cardinality({i \in 1..Len(a) : a[i] = x}) = Cardinality({i \in 1..Len(b) : b[i] = x})

\* C12: result size.  A successful response has total_found equal to the
\* number of results, at most max_results of them, and the query as it was
\* sent.  A request whose query was embedded read the index once and ends
\* in success; when fewer than max_results candidates pass the filters the
\* response carries exactly those candidates, and when none passes the
\* oracle is not called.
SearchResultSize ==
    req.pc = "responded" =>
        /\ req.embed = "ok" => req.status = 200 /\ req.index_reads = 1
        /\ req.status = 200 =>
              /\ req.total_found = Len(req.results)
              /\ Len(req.results) <= req.max_results
              /\ req.echo = req.query
              /\ Len(req.filtered) < req.max_results => SameElements(req.results, req.filtered)
              /\ req.filtered = <<>> => req.oracle_calls = 0 /\ req.results = <<>>


\* ------------------------------------------------------------- properties of matches_filters
\* A call of matches_filters has compared a pair: it has returned after
\* comparing the pair core.i, or it has moved on to the pair after it.
Compared ==
    /\ core.fn = "matches_filters"
    /\ \/ core.pc = "lookup" /\ core.i > 1
       \/ core.pc = "ended" /\ Truthy(core.filters) /\ ~core.out.raised

\* The pair compared last, and whether it passed.
ComparedPair ==
    IF core.pc = "lookup" THEN core.filters.items[core.i - 1] ELSE core.filters.items[core.i]

ComparedPassed == IF core.pc = "lookup" THEN TRUE ELSE core.out.value

\* lower(a) = lower(b) and lower(a) in lower(b), on the string forms
SameIgnoringCase(a, b) == Lower(StrOf(a)) = Lower(StrOf(b))
OccursIgnoringCase(a, b) == Contains(Lower(StrOf(b)), Lower(StrOf(a)))

\* C13: string filters are case-insensitive substring tests on the
\* stringified profile-side value.  A pair whose filter value is a string
\* passes iff the profile-side value is not null and the lowered filter
\* value occurs in the lowered string form of the profile-side value.
StringFilterSubstring ==
    (Compared /\ ComparedPair.v.t = "str")
        => (ComparedPassed <=>
               (core.profile_value # None
                /\ OccursIgnoringCase(ComparedPair.v, core.profile_value)))

\* C14: list filters.  A pair whose filter value is a list passes iff the
\* profile-side value is a list sharing an element with it ignoring case,
\* or a string in which some filter element occurs ignoring case, or
\* another non-null scalar whose string form equals some filter element
\* ignoring case; a null profile-side value never passes.
ListFilterAnyOverlap ==
    (Compared /\ ComparedPair.v.t = "list")
        => LET wanted == ComparedPair.v.l
               held == core.profile_value
           IN ComparedPassed <=>
                 CASE held.t = "list" ->
                        \E i \in 1..Len(wanted), j \in 1..Len(held.l) :
                            SameIgnoringCase(wanted[i], held.l[j])
                   [] held.t = "str" ->
                        \E i \in 1..Len(wanted) : OccursIgnoringCase(wanted[i], held)
                   [] held.t = "none" -> FALSE
                   [] OTHER ->
                        \E i \in 1..Len(wanted) : SameIgnoringCase(wanted[i], held)

\* sectors_of_interest ['Fi', 'AI'] passes the filter ['fi'].
ListFilterAnyOverlapWitness ==
    /\ core.fn = "matches_filters"
    /\ core.pc = "ended"
    /\ core.profile = ProfileA
    /\ core.filters = Filters(<<Pair(<<"sectors_of_interest">>, ListV(<<StrV(<<"f", "i">>)>>))>>)
    /\ core.profile_value = ListV(<<StrV(<<"F", "i">>), StrV(<<"A", "I">>)>>)
    /\ core.out = Returned(TRUE)

\* obj[key], null when obj is not an object or has no such key
Field(obj, key) == IF obj.t = "dict" /\ key \in DOMAIN obj.d THEN obj.d[key] ELSE None

RECURSIVE DottedPath(_, _)
DottedPath(obj, parts) ==
    IF parts = <<>> THEN obj
    ELSE IF obj.t # "dict" THEN None
    ELSE IF Head(parts) \notin DOMAIN obj.d THEN None
    ELSE DottedPath(obj.d[Head(parts)], Tail(parts))

\* The value a filter key stands for: the dotted path, or the top level,
\* then personal_info, then investment_profile.
Resolved(profile, key) ==
    IF Len(key) > 1 THEN DottedPath(profile, key)
    ELSE IF Field(profile, key[1]) # None THEN Field(profile, key[1])
    ELSE IF Field(Field(profile, "personal_info"), key[1]) # None
    THEN Field(Field(profile, "personal_info"), key[1])
    ELSE Field(Field(profile, "investment_profile"), key[1])

EqualsBoolean(value, b) ==
    \/ value = BoolV(b)
    \/ value = IntV(IF b THEN 1 ELSE 0)

PassesAlone(profile, pair) == matches_filters(profile, Filters(<<pair>>)) = Returned(TRUE)

\* C17: matches_filters is the logical AND over the pairs.  A call returns
\* True iff every pair of the mapping passes on its own, in whatever order
\* the pairs come; with no mapping or an empty one it returns True.
FiltersConjunction ==
    (core.fn = "matches_filters" /\ core.pc = "ended")
        => /\ ~Truthy(core.filters) => core.out = Returned(TRUE)
           /\ Truthy(core.filters)
                 => (core.out = Returned(TRUE)
                        <=> \A i \in 1..Len(core.filters.items) :
                               PassesAlone(core.profile, core.filters.items[i]))

\* Two pairs, the first passes, the second does not: False.
FiltersConjunctionWitness ==
    /\ core.fn = "matches_filters"
    /\ core.pc = "ended"
    /\ core.profile = BothLocations
    /\ core.filters = Filters(<<Pair(<<"location">>, StrV(<<"t", "a">>)),
                                Pair(<<"is_investor">>, BoolV(TRUE))>>)
    /\ core.i = 2
    /\ core.out = Returned(FALSE)


\* ------------------------------------------------------------- properties of get_text_representation
\* A call of get_text_representation has returned its text.
TextReturned ==
    core.fn = "get_text_representation" /\ core.pc = "ended" /\ ~core.out.raised

RECURSIVE SplitParts(_, _)
\* The pieces of a text between the occurrences of a separator symbol.
SplitParts(text, sep) ==
    IF \E i \in 1..Len(text) : text[i] = sep
    THEN LET at == CHOOSE i \in 1..Len(text) :
                       text[i] = sep /\ \A j \in 1..(i - 1) : text[j] # sep
         IN <<SubSeq(text, 1, at - 1)>> \o SplitParts(SubSeq(text, at + 1, Len(text)), sep)
    ELSE <<text>>

\* The piece of the text that begins with the label; empty if there is none.
PartLabeled(text, label) ==
    LET pieces == SplitParts(text, " | ")
    IN IF \E i \in 1..Len(pieces) : pieces[i] # <<>> /\ pieces[i][1] = label
       THEN pieces[CHOOSE i \in 1..Len(pieces) : pieces[i] # <<>> /\ pieces[i][1] = label]
       ELSE <<>>

\* The list a record holds at personal_info.<field> or investment_profile.<field>.
ListField(profile, sub, field) ==
    LET held == Field(Field(profile, sub), field)
    IN IF held.t = "list" THEN held.l ELSE <<>>

\* The first `count` entries, each as "<first><mid><second>", joined by "; ".
EntriesRendered(label, entries, count, first, mid, second) ==
    <<label>> \o Join([i \in 1..count |->
                          Field(entries[i], first).s \o <<mid>> \o Field(entries[i], second).s],
                      <<";", " ">>)

\* The first `count` items, joined by ", ".
ItemsRendered(label, items, count) ==
    <<label>> \o Join([i \in 1..count |-> items[i].s], <<",", " ">>)

\* Every entry has both parts, as strings.
WholeEntries(entries, first, second) ==
    \A i \in 1..Len(entries) :
        Field(entries[i], first).t = "str" /\ Field(entries[i], second).t = "str"

\* C18: truncation bounds of the text projection.  The text renders the
\* first 5 experience entries at most, the first 3 education entries at
\* most and the first 10 portfolio companies at most, in source order,
\* however many the record holds; investment focus, sectors and stages are
\* rendered whole.
TextTruncationBounds ==
    TextReturned =>
        LET text == core.out.value
            experience == ListField(core.profile, "personal_info", "experience")
            education == ListField(core.profile, "personal_info", "education")
            portfolio == ListField(core.profile, "investment_profile", "portfolio_companies")
            focus == ListField(core.profile, "investment_profile", "investment_focus")
            sectors == ListField(core.profile, "investment_profile", "sectors_of_interest")
            stage == ListField(core.profile, "investment_profile", "investment_stage")
        IN /\ Count(text, " at ") = Min(Len(experience), 5)
           /\ Count(text, " from ") = Min(Len(education), 3)
           /\ (experience # <<>> /\ WholeEntries(experience, "title", "company"))
                 => PartLabeled(text, "Experience: ") =
                       EntriesRendered("Experience: ", experience, Min(Len(experience), 5),
                                       "title", " at ", "company")
           /\ (education # <<>> /\ WholeEntries(education, "degree", "school"))
                 => PartLabeled(text, "Education: ") =
                       EntriesRendered("Education: ", education, Min(Len(education), 3),
                                       "degree", " from ", "school")
           /\ portfolio # <<>>
                 => PartLabeled(text, "Portfolio Companies: ") =
                       ItemsRendered("Portfolio Companies: ", portfolio, Min(Len(portfolio), 10))
           /\ focus # <<>>
                 => PartLabeled(text, "Investment Focus: ") =
                       ItemsRendered("Investment Focus: ", focus, Len(focus))
           /\ sectors # <<>>
                 => PartLabeled(text, "Sectors of Interest: ") =
                       ItemsRendered("Sectors of Interest: ", sectors, Len(sectors))
           /\ stage # <<>>
                 => PartLabeled(text, "Investment Stage: ") =
                       ItemsRendered("Investment Stage: ", stage, Len(stage))

\* A record with more entries than each bound, and more than ten items in
\* the lists that are not truncated.
TextTruncationBoundsWitness ==
    /\ TextReturned
    /\ Len(ListField(core.profile, "personal_info", "experience")) > 5
    /\ Len(ListField(core.profile, "personal_info", "education")) > 3
    /\ Len(ListField(core.profile, "investment_profile", "portfolio_companies")) > 10
    /\ Len(ListField(core.profile, "investment_profile", "investment_focus")) > 10
    /\ Count(core.out.value, " at ") = 5
    /\ Count(core.out.value, " from ") = 3


\* The fields of the text projection in their fixed order, each with the
\* object it lives in ("" for the record itself) and its label.
FieldOrder ==
    <<[sub |-> "", field |-> "name", label |-> "Name: "],
      [sub |-> "personal_info", field |-> "headline", label |-> "Headline: "],
      [sub |-> "personal_info", field |-> "location", label |-> "Location: "],
      [sub |-> "personal_info", field |-> "current_role", label |-> "Current Role: "],
      [sub |-> "personal_info", field |-> "company", label |-> "Company: "],
      [sub |-> "personal_info", field |-> "summary", label |-> "Summary: "],
      [sub |-> "personal_info", field |-> "experience", label |-> "Experience: "],
      [sub |-> "personal_info", field |-> "education", label |-> "Education: "],
      [sub |-> "investment_profile", field |-> "is_investor", label |-> "Is an investor"],
      [sub |-> "investment_profile", field |-> "investment_role", label |-> "Investment Role: "],
      [sub |-> "investment_profile", field |-> "investment_focus", label |-> "Investment Focus: "],
      [sub |-> "investment_profile", field |-> "portfolio_companies",
       label |-> "Portfolio Companies: "],
      [sub |-> "investment_profile", field |-> "sectors_of_interest",
       label |-> "Sectors of Interest: "],
      [sub |-> "investment_profile", field |-> "investment_stage", label |-> "Investment Stage: "]>>

Labels == {FieldOrder[i].label : i \in 1..Len(FieldOrder)}

\* The field is present and not empty (for is_investor: true).
PresentField(profile, f) ==
    Truthy(IF f.sub = "" THEN Field(profile, f.field)
           ELSE Field(Field(profile, f.sub), f.field))

\* The labels of the fields of the record that are present and not empty,
\* in the fixed order.
PresentLabels(profile) ==
    LET present == SelectSeq(FieldOrder, LAMBDA f : PresentField(profile, f))
    IN [i \in 1..Len(present) |-> present[i].label]

\* The symbol has text on both sides: it is neither first nor last, and
\* what is next to it is no label and no separator.
HasBothSides(text, i) ==
    /\ 1 < i /\ i < Len(text)
    /\ text[i - 1] \notin Labels \cup {" | ", " "}
    /\ text[i + 1] \notin Labels \cup {" | ", ";"}

\* C19: absent fields contribute nothing to the text projection.  The text
\* is the ' | '-join, in the fixed order, of the fragments of exactly the
\* fields that are present and not empty: no fragment is empty, none is
\* missing or extra, and the text holds no literal 'None' and no ' at ' or
\* ' from ' without a title and a company, a degree and a school around it.
AbsentFieldsAddNothing ==
    TextReturned =>
        LET text == core.out.value
            pieces == IF text = <<>> THEN <<>> ELSE SplitParts(text, " | ")
        IN /\ SelectSeq(text, LAMBDA c : c \in Labels) = PresentLabels(core.profile)
           /\ Len(pieces) = Len(PresentLabels(core.profile))
           /\ \A i \in 1..Len(pieces) :
                 /\ pieces[i] # <<>>
                 /\ pieces[i][1] = PresentLabels(core.profile)[i]
                 /\ pieces[i][1] # "Is an investor" => Len(pieces[i]) > 1
           /\ ~Contains(text, <<"N", "o", "n", "e">>)
           /\ \A i \in 1..Len(text) :
                 text[i] \in {" at ", " from "} => HasBothSides(text, i)


\* C20: the core operations tolerate incomplete records.  On a record whose
\* personal_info, investment_profile or optional fields are absent, empty
\* or null, a call of get_text_representation or of matches_filters (with
\* any filter mapping) returns a value; it never raises.
ToleratesIncompleteRecords ==
    core.pc = "ended" => ~core.out.raised


\* ------------------------------------------------------------- properties of the request validation
IsSearch == req.route \in {"POST /search", "GET /search/get"}

\* The request in hand has no query, an empty query, or a max_results
\* outside [1, 100].
Malformed ==
    IF ~req.has_query THEN TRUE
    ELSE IF req.query = EmptyQuery THEN TRUE
    ELSE req.max_results < 1 \/ req.max_results > 100

NoOutboundCall == req.embed_calls = 0 /\ req.index_reads = 0 /\ req.oracle_calls = 0

\* C21: a search request whose query is missing or empty, or whose
\* max_results lies outside [1, 100], is answered with a 4xx status before
\* any embedding, index or oracle call, and never with 500 or 503.
SearchValidation ==
    (IsSearch /\ Malformed) =>
        /\ req.pc = "responded"
        /\ req.status \in 400..499
        /\ NoOutboundCall


ProfileLookup ==
    /\ [](req.route = "GET /profiles/{profile_id}" =>
            IF 0 <= req.profile_id /\ req.profile_id < Len(profiles)
            THEN req.status = 200 /\ req.body = profiles[req.profile_id + 1]
            ELSE req.status = 404)
    /\ [][req'.route = "GET /profiles/{profile_id}" => profiles' = profiles]_vars

\* The records of the store at the positions [from, to), in store order.
Positions(store, from, to) ==
    IF to <= from THEN <<>> ELSE [i \in 1..(to - from) |-> store[from + i]]

\* C24: GET /profiles with skip >= 0 and limit in [1, 100] returns the
\* records at the positions [skip, min(skip + limit, count)) in store order,
\* which is the empty list when skip >= count, and never an error, for
\* every store.
Pagination ==
    (req.route = "GET /profiles" /\ req.skip >= 0 /\ req.limit >= 1 /\ req.limit <= 100) =>
        /\ req.status = 200
        /\ req.body.profiles =
              Positions(profiles, req.skip, Min(req.skip + req.limit, Len(profiles)))
        /\ req.skip >= Len(profiles) => req.body.profiles = <<>>


\* ------------------------------------------------------------- properties of GET /search/get
\* The pieces of a comma-separated parameter: joined by commas they give the
\* parameter back, and none holds a comma.
IsCommaSplit(pieces, s) ==
    /\ Join(pieces, <<",">>) = s
    /\ \A i \in 1..Len(pieces) : \A j \in 1..Len(pieces[i]) : pieces[i][j] # ","

\* t is p without the blanks at its two ends.
IsTrimOf(t, p) ==
    /\ t # <<>> => t[1] # " " /\ t[Len(t)] # " "
    /\ \E a, b \in 0..Len(p) :
          /\ a + Len(t) + b = Len(p)
          /\ \A i \in 1..Len(p) :
                IF i <= a \/ i > a + Len(t) THEN p[i] = " " ELSE p[i] = t[i - a]

\* list is the comma-split, trimmed form of the parameter value.
IsSplitTrimmed(list, value) ==
    /\ list.t = "list"
    /\ \E pieces \in {Split(value.s)} :
          /\ IsCommaSplit(pieces, value.s)
          /\ Len(list.l) = Len(pieces)
          /\ \A i \in 1..Len(pieces) : list.l[i].t = "str" /\ IsTrimOf(list.l[i].s, pieces[i])

\* The value a filter mapping holds under a key, Absent when it has no such key.
Entry(filters, key) ==
    IF filters = None THEN Absent
    ELSE IF \E i \in 1..Len(filters.items) : filters.items[i].k = <<key>>
    THEN filters.items[CHOOSE i \in 1..Len(filters.items) : filters.items[i].k = <<key>>].v
    ELSE Absent

Supplied(value) == value # None /\ value.t = "str" /\ value.s # <<>>

\* The filters the parameters stand for: is_investor when supplied, false
\* included; investment_role and location when non-empty; the comma-split
\* trimmed sectors and stages; no other key; no mapping when no key.
StandsFor(filters, params) ==
    /\ Entry(filters, "is_investor") =
          (IF params.is_investor # None THEN params.is_investor ELSE Absent)
    /\ Entry(filters, "investment_role") =
          (IF Supplied(params.investment_role) THEN params.investment_role ELSE Absent)
    /\ Entry(filters, "location") =
          (IF Supplied(params.location) THEN params.location ELSE Absent)
    /\ IF Supplied(params.sectors)
       THEN IsSplitTrimmed(Entry(filters, "sectors_of_interest"), params.sectors)
       ELSE Entry(filters, "sectors_of_interest") = Absent
    /\ IF Supplied(params.investment_stage)
       THEN IsSplitTrimmed(Entry(filters, "investment_stage"), params.investment_stage)
       ELSE Entry(filters, "investment_stage") = Absent
    /\ filters # None =>
          /\ filters.items # <<>>
          /\ \A i \in 1..Len(filters.items) :
                /\ filters.items[i].k \in {<<"is_investor">>, <<"investment_role">>,
                                           <<"location">>, <<"sectors_of_interest">>,
                                           <<"investment_stage">>}
                /\ \A j \in 1..Len(filters.items) : i # j => filters.items[i].k # filters.items[j].k

Answered == Response(req.status, req.results, req.total_found, req.echo)

\* C25: GET /search/get answers what POST /search answers for the body
\* {query, max_results, filters} whose filters are the ones the parameters
\* stand for: the filters built are those, and the response is the one
\* search gives to that body for the same outcome of the embedding call,
\* the same rows of the index and the same answer of the oracle, as the
\* response to a POST body is.
GetSearchSameContract ==
    /\ (req.pc = "responded" /\ req.route = "GET /search/get") =>
          /\ Validates(req.params) => StandsFor(req.filters, req.params)
          /\ Answered = search(Body(req.params.has_query, req.params.query,
                                    req.params.max_results, req.filters),
                               req.embed # "failed", req.indices, req.oracle)
    /\ (req.pc = "responded" /\ req.route = "POST /search") =>
          Answered = search(Body(req.has_query, req.query, req.max_results, req.filters),
                            req.embed # "failed", req.indices, req.oracle)

GetSearchSameContractWitness ==
    /\ req.pc = "responded"
    /\ req.route = "GET /search/get"
    /\ req.status = 200
    /\ req.params.is_investor = BoolV(FALSE)
    /\ req.filters = Filters(<<Pair(<<"is_investor">>, BoolV(FALSE))>>)
    /\ Len(req.results) = 1
    /\ profiles[req.results[1] + 1] = ProfileB


\* ------------------------------------------------------------- properties of the oracle's numbering
\* The oracle answered with a list of numbers it was shown, no number twice.
AnsweredShownNumbers ==
    /\ rr.pc = "returned"
    /\ rr.numbers # <<>>
    /\ rr.oracle.o = "json"
    /\ rr.oracle.v.t = "list"
    /\ rr.oracle.v.l # <<>>
    /\ \A j \in 1..Len(rr.oracle.v.l) :
          /\ rr.oracle.v.l[j].t = "int"
          /\ rr.oracle.v.l[j].n \in Range(rr.numbers)
          /\ \A h \in 1..Len(rr.oracle.v.l) : h # j => rr.oracle.v.l[h] # rr.oracle.v.l[j]

\* The candidate the prompt showed under a number.
Meant(number) == rr.results[CHOOSE j \in 1..Len(rr.results) : rr.numbers[j] = number]

\* C27: the prompt numbers the candidates 0-based in input order, the
\* parser maps the number shown for candidate i back to candidate i, and an
\* oracle that answers with numbers it was shown gets the candidates it
\* meant, in its order, at the head of the results.
OracleNumbering ==
    /\ (rr.pc \in {"asked", "returned"} /\ rr.numbers # <<>>) =>
          \A i \in 0..(Len(rr.results) - 1) :
             /\ rr.numbers[i + 1] = i
             /\ ValidIndices(<<IntV(rr.numbers[i + 1])>>, Len(rr.results)) = <<i>>
    /\ AnsweredShownNumbers =>
          \A j \in 1..Min(Len(rr.oracle.v.l), Len(rr.out)) :
             rr.out[j] = Meant(rr.oracle.v.l[j].n)


\* ------------------------------------------------------------- properties of the avatar patching
\* The member a profile is matched to: the one whose normalized name is the
\* profile's normalized name or, when there is none, the one whose
\* normalized LinkedIn URL is the profile's normalized linkedin_url.
MatchedMember(profile, rows) ==
    LET members_lookup == load_members_csv(rows)
        name == GetOr(profile, "name", StrV(<<>>))
        linkedin_url == GetOr(profile, "linkedin_url", StrV(<<>>))
    IN IF name.s # <<>> /\ NormalizedName(name.s) \in DOMAIN members_lookup.by_name
       THEN members_lookup.by_name[NormalizedName(name.s)]
       ELSE IF linkedin_url.s # <<>>
               /\ NormalizedLinkedin(linkedin_url.s) \in DOMAIN members_lookup.by_linkedin
       THEN members_lookup.by_linkedin[NormalizedLinkedin(linkedin_url.s)]
       ELSE None

\* C26: when patch_profiles_json has run, every profile matched to a member
\* by normalized name or, failing that, by normalized LinkedIn URL has that
\* member's avatar_url, whenever the member has one.
AvatarPatched ==
    patch.pc = "done" =>
        \A i \in 1..Len(patch.profiles) :
            LET member == MatchedMember(patch.profiles[i], patch.rows)
            IN (member # None /\ member.avatar_url # None) =>
                   Get(patch.profiles[i], "avatar_url") = member.avatar_url


\* ------------------------------------------------------------- properties of the shared state
InHand == req.pc \in {"embedding", "reranking"}

Loadable == {i \in 1..3 : load.fs[load.possible_files[i]].kind = "list"}

FirstLoadable == CHOOSE i \in Loadable : \A j \in Loadable : i <= j

\* The files that exist among the first n candidates, in candidate order.
ExistingUpTo(n) ==
    SelectSeq(SubSeq(load.possible_files, 1, n), LAMBDA f : load.fs[f].kind # "missing")

LoopOver == load.pc = "done"

\* C29: the candidates are [PROFILES_JSON, angel_profiles.json,
\* angel_profiles_llm.json]; when the loop is over the store is the list of
\* the first candidate that exists and holds a JSON list, the files tried
\* are the existing ones up to it in candidate order, the failing ones
\* skipped; when no candidate loads the store is empty, no index is ever
\* built and startup ends normally; an index exists only when a file was
\* loaded and the client handle is set.
StartupFallback ==
    /\ load.pc # "idle" =>
          /\ load.possible_files[2] = "angel_profiles.json"
          /\ load.possible_files[3] = "angel_profiles_llm.json"
          /\ Len(load.possible_files) = 3
    /\ (LoopOver /\ Loadable # {}) =>
          /\ load.loaded
          /\ profiles = load.fs[load.possible_files[FirstLoadable]].profiles
          /\ load.tried = ExistingUpTo(FirstLoadable)
    /\ (LoopOver /\ Loadable = {}) =>
          /\ ~load.loaded
          /\ profiles = <<>>
          /\ load.tried = ExistingUpTo(3)
          /\ faiss_index = None /\ builds = 0
          /\ boot.pc = "done"
    /\ (faiss_index # None \/ builds > 0) => (load.pc = "done" /\ load.loaded /\ openai_client)

StartupFallbackWitness ==
    /\ boot.pc = "done"
    /\ load.pc = "done"
    /\ load.possible_files[1] = CustomFile
    /\ load.fs[CustomFile] = Unloadable("not a list")
    /\ load.fs[DefaultFile] = Missing
    /\ load.tried = <<CustomFile, LlmFile>>
    /\ profiles = <<ProfileD>>
    /\ faiss_index # None


\* ------------------------------------------------------------- properties of scrape_all
RECURSIVE PagesUpTo(_, _)
\* The members of the pages 1..n, page after page.
PagesUpTo(directory, n) ==
    IF n = 0 THEN <<>> ELSE PagesUpTo(directory, n - 1) \o PageMembers(directory, n)

\* The page count is known and page p has reached it.
ReachedMaxPages(p) == scrape.max_pages # Unknown /\ p >= scrape.max_pages

\* What scrape_all returned once the first page was fetched: the pages
\* 2, 3, ..., last were asked for, each once and in order; the loop stopped
\* at `last` because its fetch failed, it had no member or it reached
\* max_pages, and at no page before; the members are those of the pages
\* that were fetched and had members, in page order.
ReturnedInOrder ==
    LET last == scrape.requested[Len(scrape.requested)]
        empty(p) == PageMembers(scrape.directory, p) = <<>>
    IN /\ scrape.requested # <<>>
       /\ scrape.requested = [i \in 1..Len(scrape.requested) |-> i + 1]
       /\ \/ scrape.failed
          \/ empty(last)
          \/ ReachedMaxPages(last)
       /\ \A p \in 2..(last - 1) : ~empty(p) /\ ~ReachedMaxPages(p)
       /\ scrape.out = PagesUpTo(scrape.directory,
                                 IF scrape.failed \/ empty(last) THEN last - 1 ELSE last)

\* C30: scrape_all returns for every directory of finitely many non-empty
\* pages, and what it returns is as ReturnedInOrder says (or nothing, when
\* the first page could not be fetched).
ScrapeTerminatesInOrder ==
    /\ (scrape.pc \in {"initial", "loop"}) ~> (scrape.pc = "returned")
    /\ [](scrape.pc = "returned" =>
            IF scrape.page_num = 1 THEN scrape.out = <<>> /\ scrape.requested = <<>>
            ELSE ReturnedInOrder)

ScrapeTerminatesInOrderWitness ==
    /\ scrape.pc = "returned"
    /\ scrape.max_pages = Unknown
    /\ scrape.directory = <<2, 1, 2>>
    /\ scrape.requested = <<2, 3, 4>>
    /\ ~scrape.failed
    /\ Len(scrape.out) = 5

====
